---- MODULE Spec2Model ----
(***************************************************************************)
(* Model of mouse_terminal's execution engine (src/src/executor.rs).       *)
(*                                                                         *)
(* The controller thread calls execute, execute_sudo, check_output and     *)
(* terminate on one Executor.  Every asynchronous command ("job") owns a   *)
(* worker thread (the supervisor), two reader threads, an output channel   *)
(* and a terminate channel.  The external process is modelled by what the  *)
(* engine can see of it: the lines it has written to each pipe and whether *)
(* it is alive, has exited with a code, or was killed.                     *)
(***************************************************************************)
EXTENDS Integers, Sequences, FiniteSets, TLC

\* ---------------------------------------------------------------- bounds
MaxJobs == 2        \* asynchronous commands started in one behaviour
MaxOut == 2         \* lines a process writes to its stdout
MaxErr == 1         \* lines a process writes to its stderr
MaxTicks == 2       \* clock advances in one behaviour
MaxLs == 1          \* lines the listing after a cd writes to each stream
MaxPw == 1          \* characters typed into the password prompt
MaxHist == 2        \* commands entered in one behaviour of the controller
MaxLen == 4         \* characters typed into the input line
MaxEdit == 2        \* characters typed into the text of the token being edited
MaxIdx == 2         \* largest token index a caller passes
MaxRaw == 5         \* characters of a line rebuilt by a commit

\* ------------------------------------------------------ program constants
SudoWindow == 15 * 60             \* seconds a sudo session stays valid
TickLen == SudoWindow \div 2      \* seconds the model's clock advances at once
FailCode == 0 - 1                 \* sentinel exit code of a failed start
ExitCodes == {0, 1}               \* codes a process may exit with
\* const DEFAULT_MAX_HISTORY
DEFAULT_MAX_HISTORY == 500

JobIds == 1..MaxJobs
Dirs == {"home", "work"}

\* Option<T>
None == [some |-> FALSE, v |-> 0]
Some(x) == [some |-> TRUE, v |-> x]

\* Option<String>::None; a string is the sequence of its characters
NoText == [some |-> FALSE, v |-> <<>>]

\* what a call of InputState returns: (), Ok(()) or Err(InputError)
Unit == [t |-> "Unit", idx |-> 0]
Ok == [t |-> "Ok", idx |-> 0]
UnmatchedQuote == [t |-> "UnmatchedQuote", idx |-> 0]
InvalidTokenIndex(i) == [t |-> "InvalidTokenIndex", idx |-> i]

\* a text line: k says where it comes from, j and n tell lines apart
Line(k, j, n) == [k |-> k, j |-> j, n |-> n]
NoLine == Line("none", 0, 0)

\* ExecutionOutput
Stdout(l) == [t |-> "Stdout", line |-> l, code |-> None]
Stderr(l) == [t |-> "Stderr", line |-> l, code |-> None]
Finished(c) == [t |-> "Finished", line |-> NoLine, code |-> c]

\* ExecutionResult::default()
EmptyResult == [exit_code |-> None, stdout |-> <<>>, stderr |-> <<>>]

VARIABLES
    output_rx,       \* Executor.output_rx: 0 = None, j = receiver of job j's output channel
    terminate_tx,    \* Executor.terminate_tx: 0 = None, j = sender of job j's terminate channel
    result,          \* Executor.result
    sudo_timestamp,  \* Executor.sudo_timestamp: Option<Instant>
    now,             \* the clock, in seconds
    ticks,           \* clock advances so far
    cwd,             \* the process-wide working directory
    nJobs,           \* asynchronous commands started so far
    jobs,            \* per job: worker, reader and process state
    chan,            \* per job: events in flight in its output channel
    term,            \* per job: signals in flight in its terminate channel
    seen,            \* jobs whose Finished event check_output has consumed
    cancelled,       \* job cancelled by a terminate() call and not superseded since, else 0
    sudo_password_prompt,  \* UiState.sudo_password_prompt
    sudo_password,         \* UiState.sudo_password: the characters typed so far
    sudo_command,          \* UiState.sudo_command: <<>> = None, else the command waiting
    history,               \* History.commands, most recent first
    raw_input,             \* InputState.raw_input: the characters of the line
    tokens,                \* InputState.tokens
    editing,               \* InputState.editing: Option<String>
    ret,                   \* what the last InputState call returned
    editing_token,         \* UiState.editing_token: Option<usize>
    should_quit,           \* App.should_quit
    run_result,            \* what App::run has returned: "running" while it has not
    ui_is_running,         \* UiState.is_running
    ui_output,             \* UiState.output: the lines on display
    max_history,           \* History.max_history
    current_position       \* History.current_position: Option<usize>

vars == <<output_rx, terminate_tx, result, sudo_timestamp, now, ticks, cwd,
          nJobs, jobs, chan, term, seen, cancelled,
          sudo_password_prompt, sudo_password, sudo_command, history,
          raw_input, tokens, editing, ret, editing_token, should_quit, run_result,
          ui_is_running, ui_output, max_history, current_position>>

\* the controller's own state (main.rs, ui.rs)
ui == <<sudo_password_prompt, sudo_password, sudo_command, history>>

\* the input line and its editor (input.rs)
inp == <<raw_input, tokens, editing, ret>>

\* the event loop and the token being edited (main.rs)
\* what the controller shows of the engine
disp == <<ui_is_running, ui_output>>

\* the bound and the cursor of the history (history.rs)
nav == <<max_history, current_position>>

app == <<editing_token, should_quit, run_result, disp, nav>>

\* what only the controller thread writes, and the environment
ctl == <<output_rx, terminate_tx, result, sudo_timestamp, nJobs, seen, cancelled,
         ui, inp, app>>
env == <<now, ticks, cwd>>

\* a job that was not started yet
NoJob == [sudo |-> FALSE,      \* started by execute_sudo
          wpc |-> "none",      \* where the worker thread is
          proc |-> "none",     \* the external process: none, alive, exited, killed
          status |-> None,     \* the supervisor's exit_status, as its exit code
          rOut |-> 0,          \* lines the stdout reader has sent
          rErr |-> 0,          \* lines the stderr reader has sent
          rdOut |-> "idle",    \* the stdout reader thread: idle, run, done
          rdErr |-> "idle",    \* the stderr reader thread
          stdin |-> <<>>,      \* what the worker has passed to write_all on the child's stdin
          fin |-> 0]           \* Finished events the worker has sent

Init ==
    /\ output_rx = 0
    /\ terminate_tx = 0
    /\ result = EmptyResult
    /\ sudo_timestamp = None
    /\ now = 0
    /\ ticks = 0
    /\ cwd = "home"
    /\ nJobs = 0
    /\ jobs = [j \in JobIds |-> NoJob]
    /\ chan = [j \in JobIds |-> <<>>]
    /\ term = [j \in JobIds |-> 0]
    /\ seen = {}
    /\ cancelled = 0
    /\ sudo_password_prompt = FALSE
    /\ sudo_password = <<>>
    /\ sudo_command = <<>>
    /\ history = <<>>
    /\ raw_input = <<>>
    /\ tokens = <<>>
    /\ editing = NoText
    /\ ret = Unit
    /\ editing_token = None
    /\ should_quit = FALSE
    /\ run_result = "running"
    /\ ui_is_running = FALSE
    /\ ui_output = <<>>
    /\ max_history = DEFAULT_MAX_HISTORY
    /\ current_position = None

\* ------------------------------------------------------------ the engine

\* is_sudo_session_valid that still accepts a session exactly 15 minutes old
SessionValidInclusive(ts, t) == ts.some /\ t - ts.v <= SudoWindow

\* Executor::is_running
is_running == output_rx # 0

\* Executor::is_sudo_session_valid, for a timestamp ts read at time t
SessionValid(ts, t) == ts.some /\ t - ts.v < SudoWindow

is_sudo_session_valid == SessionValid(sudo_timestamp, now)

\* The worker still owns the receiving end of job j's terminate channel.
\* run_command owns it and drops it when it returns (also on a failed spawn);
\* the execute_sudo closure owns it until the closure ends.
TermRxAlive(j) ==
    /\ jobs[j].wpc \notin {"none", "done"}
    /\ (jobs[j].sudo \/ jobs[j].wpc \notin {"errmsg", "errfin"})

\* terminate() that drops the sender without sending
TerminatePostNoSend(tx, rx, tch) ==
    [terminate_tx |-> 0, output_rx |-> 0, term |-> tch]

\* terminate() that sends on the sender without taking it out of the Option
TerminatePostNoTake(tx, rx, tch) ==
    [terminate_tx |-> tx,
     output_rx |-> 0,
     term |-> IF tx # 0 /\ jobs[tx].wpc \notin {"none", "done"}
              THEN [tch EXCEPT ![tx] = @ + 1] ELSE tch]

\* Executor::terminate as a function of the fields it reads: tx is
\* terminate_tx, rx is output_rx, tch the terminate channels.  The send fails,
\* and is ignored, when the worker has dropped the receiver.
TerminatePost(tx, rx, tch) ==
    [terminate_tx |-> 0,
     output_rx |-> 0,
     term |-> IF tx # 0 /\ TermRxAlive(tx) THEN [tch EXCEPT ![tx] = @ + 1] ELSE tch]

\* Dropping the Receiver of an output channel frees the events queued in it.
DropChan(rx, ch) == IF rx = 0 THEN ch ELSE [ch EXCEPT ![rx] = <<>>]

\* The line counts of a job only tell its lines apart.  The model forgets
\* them when the lines are gone: when the job's receiver is dropped, so that
\* no further line of it is delivered (DropJob), and when the result that
\* holds its lines is reset (ResetJobs).
Forget(jb) == [jb EXCEPT !.rOut = 0, !.rErr = 0]

DropJob(rx, js) == IF rx = 0 THEN js ELSE [js EXCEPT ![rx] = Forget(@)]

ResetJobs(js) == [j \in JobIds |-> Forget(js[j])]

\* an execute that keeps the previous result
KeepResult(res) == res

\* self.result = ExecutionResult::default()
ResetResult(res) == EmptyResult

\* the state of a job whose worker thread was just spawned
NewJob(isSudo) == [NoJob EXCEPT !.sudo = isSudo, !.wpc = "start"]

\* Executor::terminate, called by the controller
Terminate ==
    LET t == TerminatePost(terminate_tx, output_rx, term) IN
    /\ terminate_tx' = t.terminate_tx
    /\ output_rx' = t.output_rx
    /\ term' = t.term
    /\ chan' = DropChan(output_rx, chan)
    /\ jobs' = DropJob(output_rx, jobs)
    /\ cancelled' = IF terminate_tx # 0 THEN terminate_tx ELSE cancelled
    /\ UNCHANGED <<result, sudo_timestamp, nJobs, seen, env, ui, inp, app>>

\* an execute that finds the line empty before it cancels anything
ExecuteEmptyNoTerminate ==
    /\ result' = ResetResult(result)
    /\ UNCHANGED <<output_rx, terminate_tx, term, chan, jobs, cancelled,
                   sudo_timestamp, nJobs, seen, env, ui, inp, app>>

\* Executor::execute with an empty or whitespace-only line: the running
\* command is cancelled and the result reset before the split fails.
ExecuteEmpty ==
    LET t == TerminatePost(terminate_tx, output_rx, term) IN
    /\ terminate_tx' = t.terminate_tx
    /\ output_rx' = t.output_rx
    /\ term' = t.term
    /\ chan' = DropChan(output_rx, chan)
    /\ jobs' = ResetJobs(jobs)
    /\ result' = ResetResult(result)
    /\ cancelled' = 0
    /\ UNCHANGED <<sudo_timestamp, nJobs, seen, env, ui, inp, app>>

\* lines of the listing run after a successful cd (run_command_sync "ls")
LsLines(k, n) == [i \in 1..n |-> Line(k, 0, i)]

\* handle_cd_command whose failure arm sets the exit code and reports nothing
CdResultSilent(target, ls) ==
    IF target \in Dirs
    THEN [exit_code |-> Some(0),
          stdout |-> <<Line("cd", 0, 0)>> \o (IF ls.ok THEN LsLines("ls", ls.out) ELSE <<>>),
          stderr |-> IF ls.ok THEN LsLines("lserr", ls.err) ELSE <<>>]
    ELSE [exit_code |-> Some(1), stdout |-> <<>>, stderr |-> <<>>]

\* Executor::handle_cd_command on a fresh result.  target is the directory
\* asked for ("missing" when it cannot be entered); ls describes the listing:
\* whether it could be run and how many lines it wrote to each stream.
CdResult(target, ls) ==
    IF target \in Dirs
    THEN [exit_code |-> Some(0),
          stdout |-> <<Line("cd", 0, 0)>> \o (IF ls.ok THEN LsLines("ls", ls.out) ELSE <<>>),
          stderr |-> IF ls.ok THEN LsLines("lserr", ls.err) ELSE <<>>]
    ELSE [exit_code |-> Some(1),
          stdout |-> <<>>,
          stderr |-> <<Line("cderr", 0, 0)>>]

LsOutcomes == [ok : BOOLEAN, out : 0..MaxLs, err : 0..MaxLs]

\* Executor::execute of "cd <target>" or of "cd" with a known home directory
ExecuteCdCall(target, ls) ==
    LET t == TerminatePost(terminate_tx, output_rx, term) IN
    /\ ls.ok \/ (ls.out = 0 /\ ls.err = 0)
    /\ target \in Dirs \/ (~ls.ok)
    /\ terminate_tx' = t.terminate_tx
    /\ output_rx' = t.output_rx
    /\ term' = t.term
    /\ chan' = DropChan(output_rx, chan)
    /\ jobs' = ResetJobs(jobs)
    /\ result' = CdResult(target, ls)
    /\ cwd' = IF target \in Dirs THEN target ELSE cwd
    /\ cancelled' = 0
    /\ UNCHANGED <<sudo_timestamp, nJobs, seen, now, ticks>>

\* ExecuteCd called where the controller's fields stay as they are
ExecuteCd(target, ls) == ExecuteCdCall(target, ls) /\ UNCHANGED <<ui, inp, app>>

\* Executor::execute of "cd" without argument when the home directory is
\* unknown: handle_cd_command returns the error before touching the result.
ExecuteCdNoHomeCall ==
    LET t == TerminatePost(terminate_tx, output_rx, term) IN
    /\ terminate_tx' = t.terminate_tx
    /\ output_rx' = t.output_rx
    /\ term' = t.term
    /\ chan' = DropChan(output_rx, chan)
    /\ jobs' = ResetJobs(jobs)
    /\ result' = ResetResult(result)
    /\ cancelled' = 0
    /\ UNCHANGED <<sudo_timestamp, nJobs, seen, env>>

\* ExecuteCdNoHome called where the controller's fields stay as they are
ExecuteCdNoHome == ExecuteCdNoHomeCall /\ UNCHANGED <<ui, inp, app>>

\* Executor::execute of "cd <target>" when the directory was entered and
\* std::env::current_dir() then fails: handle_cd_command returns the error
\* with the working directory changed and the result untouched.
ExecuteCdNoCwdCall(target) ==
    LET t == TerminatePost(terminate_tx, output_rx, term) IN
    /\ target \in Dirs
    /\ terminate_tx' = t.terminate_tx
    /\ output_rx' = t.output_rx
    /\ term' = t.term
    /\ chan' = DropChan(output_rx, chan)
    /\ jobs' = ResetJobs(jobs)
    /\ result' = ResetResult(result)
    /\ cwd' = target
    /\ cancelled' = 0
    /\ UNCHANGED <<sudo_timestamp, nJobs, seen, now, ticks>>

\* ExecuteCdNoCwd called where the controller's fields stay as they are
ExecuteCdNoCwd(target) == ExecuteCdNoCwdCall(target) /\ UNCHANGED <<ui, inp, app>>

\* whether execute returns Ok(()) for a call of the given kind: it returns an
\* error for an empty line and for a cd that returned one
ExecuteOk(call) == call \notin {"empty", "cd_nohome", "cd_nocwd"}

\* an execute that stamps every sudo line, valid session or not
ExecuteTimestampAlways(isSudoLine) ==
    IF isSudoLine THEN Some(now) ELSE sudo_timestamp

\* the sudo timestamp after execute of a line whose program is "sudo"
\* (isSudoLine) followed by at least one argument
ExecuteTimestamp(isSudoLine) ==
    IF isSudoLine /\ is_sudo_session_valid THEN Some(now) ELSE sudo_timestamp

\* Executor::execute of any other program: cancel, reset, new channels, spawn
\* the worker thread.
ExecuteCall(isSudoLine) ==
    LET t == TerminatePost(terminate_tx, output_rx, term)
        j == nJobs + 1 IN
    /\ nJobs < MaxJobs
    /\ nJobs' = j
    /\ term' = t.term
    /\ chan' = DropChan(output_rx, chan)
    /\ result' = ResetResult(result)
    /\ sudo_timestamp' = ExecuteTimestamp(isSudoLine)
    /\ output_rx' = j
    /\ terminate_tx' = j
    /\ jobs' = [ResetJobs(jobs) EXCEPT ![j] = NewJob(FALSE)]
    /\ cancelled' = 0
    /\ UNCHANGED <<seen, env>>

\* execute called with the controller's own state left alone
Execute(isSudoLine) == ExecuteCall(isSudoLine) /\ UNCHANGED <<ui, inp, app>>

\* Executor::execute_sudo
ExecuteSudoCall ==
    LET t == TerminatePost(terminate_tx, output_rx, term)
        j == nJobs + 1 IN
    /\ nJobs < MaxJobs
    /\ nJobs' = j
    /\ term' = t.term
    /\ chan' = DropChan(output_rx, chan)
    /\ result' = ResetResult(result)
    /\ output_rx' = j
    /\ terminate_tx' = j
    /\ sudo_timestamp' = Some(now)
    /\ jobs' = [ResetJobs(jobs) EXCEPT ![j] = NewJob(TRUE)]
    /\ cancelled' = 0
    /\ UNCHANGED <<seen, env>>

\* execute_sudo called with the controller's own state left alone
ExecuteSudo == ExecuteSudoCall /\ UNCHANGED <<ui, inp, app>>

\* a receive loop that puts each line in front of the lines it holds
RECURSIVE DrainFront(_, _)
DrainFront(a, q) ==
    IF q = <<>> THEN a
    ELSE LET o == Head(q) IN
         DrainFront(CASE o.t = "Stdout" ->
                      [a EXCEPT !.result.stdout = <<o.line>> \o @, !.updated = TRUE]
                 [] o.t = "Stderr" ->
                      [a EXCEPT !.result.stderr = <<o.line>> \o @, !.updated = TRUE]
                 [] OTHER ->
                      [a EXCEPT !.exit_code = o.code, !.finished = TRUE, !.updated = TRUE],
               Tail(q))

\* the fold of check_output's receive loop over the events q, starting from
\* the accumulator a = [result, updated, finished, exit_code]
RECURSIVE Drain(_, _)
Drain(a, q) ==
    IF q = <<>> THEN a
    ELSE LET o == Head(q) IN
         Drain(CASE o.t = "Stdout" ->
                      [a EXCEPT !.result.stdout = Append(@, o.line), !.updated = TRUE]
                 [] o.t = "Stderr" ->
                      [a EXCEPT !.result.stderr = Append(@, o.line), !.updated = TRUE]
                 [] OTHER ->
                      [a EXCEPT !.exit_code = o.code, !.finished = TRUE, !.updated = TRUE],
               Tail(q))

\* check_output that, on Finished, forgets to store the exit code
CheckOutputPostNoCode(rx, tx, res, q) ==
    LET d == Drain([result |-> res, updated |-> FALSE, finished |-> FALSE,
                    exit_code |-> None],
                   IF rx # 0 THEN q ELSE <<>>) IN
    [result |-> d.result,
     output_rx |-> IF d.finished THEN 0 ELSE rx,
     terminate_tx |-> IF d.finished THEN 0 ELSE tx,
     finished |-> d.finished,
     ret |-> d.updated]

\* check_output that takes an empty channel for the end of the command
CheckOutputPostEager(rx, tx, res, q) ==
    LET d == Drain([result |-> res, updated |-> FALSE, finished |-> FALSE,
                    exit_code |-> None],
                   IF rx # 0 THEN q ELSE <<>>) IN
    [result |-> IF d.finished THEN [d.result EXCEPT !.exit_code = d.exit_code]
                ELSE d.result,
     output_rx |-> IF d.finished \/ ~d.updated THEN 0 ELSE rx,
     terminate_tx |-> IF d.finished \/ ~d.updated THEN 0 ELSE tx,
     finished |-> d.finished,
     ret |-> d.updated]

\* check_output that clears the result when it holds no receiver
CheckOutputPostReset(rx, tx, res, q) ==
    LET d == Drain([result |-> res, updated |-> FALSE, finished |-> FALSE,
                    exit_code |-> None],
                   IF rx # 0 THEN q ELSE <<>>) IN
    [result |-> IF rx = 0 THEN EmptyResult
                ELSE IF d.finished THEN [d.result EXCEPT !.exit_code = d.exit_code]
                ELSE d.result,
     output_rx |-> IF d.finished THEN 0 ELSE rx,
     terminate_tx |-> IF d.finished THEN 0 ELSE tx,
     finished |-> d.finished,
     ret |-> d.updated]

\* check_output that, on Finished, stores the exit code and keeps the receiver
CheckOutputPostKeepRx(rx, tx, res, q) ==
    LET d == Drain([result |-> res, updated |-> FALSE, finished |-> FALSE,
                    exit_code |-> None],
                   IF rx # 0 THEN q ELSE <<>>) IN
    [result |-> IF d.finished THEN [d.result EXCEPT !.exit_code = d.exit_code]
                ELSE d.result,
     output_rx |-> rx,
     terminate_tx |-> IF d.finished THEN 0 ELSE tx,
     finished |-> d.finished,
     ret |-> d.updated]

\* Executor::check_output as a function of the fields it reads: rx is
\* output_rx, tx is terminate_tx, res is result, q the events available in
\* the channel rx receives from.  ret is the value returned.
CheckOutputPost(rx, tx, res, q) ==
    LET d == Drain([result |-> res, updated |-> FALSE, finished |-> FALSE,
                    exit_code |-> None],
                   IF rx # 0 THEN q ELSE <<>>) IN
    [result |-> IF d.finished THEN [d.result EXCEPT !.exit_code = d.exit_code]
                ELSE d.result,
     output_rx |-> IF d.finished THEN 0 ELSE rx,
     terminate_tx |-> IF d.finished THEN 0 ELSE tx,
     finished |-> d.finished,
     ret |-> d.updated]

\* the events check_output can receive now
Pending == IF output_rx # 0 THEN chan[output_rx] ELSE <<>>

\* Executor::check_output, called by the controller on every tick
CheckOutputCall ==
    LET c == CheckOutputPost(output_rx, terminate_tx, result, Pending) IN
    /\ result' = c.result
    /\ output_rx' = c.output_rx
    /\ terminate_tx' = c.terminate_tx
    /\ chan' = DropChan(output_rx, chan)
    /\ seen' = IF c.finished THEN seen \cup {output_rx} ELSE seen
    /\ UNCHANGED <<sudo_timestamp, nJobs, cancelled, env, jobs, term>>

\* CheckOutput called where the controller's fields stay as they are
CheckOutput == CheckOutputCall /\ UNCHANGED <<ui, inp, app>>

\* time passes
Tick ==
    /\ ticks < MaxTicks
    /\ ticks' = ticks + 1
    /\ now' = now + TickLen
    /\ UNCHANGED <<ctl, cwd, jobs, chan, term>>

\* ------------------------------------------------- channels and processes

\* Sender::send on job j's output channel: the event is queued while the
\* Executor holds the receiver, and the send fails once it was dropped.
SendOk(j) == output_rx = j

Send(j, ev) == IF SendOk(j) THEN [chan EXCEPT ![j] = Append(@, ev)] ELSE chan

\* the process of job j exits on its own; its exit code is seen, and chosen,
\* when the supervisor waits for it
ProcExit(j) ==
    /\ jobs[j].proc = "alive"
    /\ jobs' = [jobs EXCEPT ![j].proc = "exited"]
    /\ UNCHANGED <<ctl, env, chan, term>>

\* ------------------------------------------------------------- the worker

\* an execute_sudo that starts the reader threads before it writes the password
AfterSpawnReadersFirst(jb) ==
    IF jb.sudo THEN [jb EXCEPT !.proc = "alive", !.wpc = "stdin", !.rdOut = "run", !.rdErr = "run"]
    ELSE [jb EXCEPT !.proc = "alive", !.wpc = "loop", !.rdOut = "run", !.rdErr = "run"]

\* where the worker goes after a successful spawn: execute_sudo writes the
\* password first, run_command starts the readers at once
AfterSpawn(jb) ==
    IF jb.sudo THEN [jb EXCEPT !.proc = "alive", !.wpc = "stdin"]
    ELSE [jb EXCEPT !.proc = "alive", !.wpc = "loop", !.rdOut = "run", !.rdErr = "run"]

\* cmd.spawn() in run_command and in the execute_sudo closure
WorkerSpawn(j, ok) ==
    /\ jobs[j].wpc = "start"
    /\ jobs' = [jobs EXCEPT ![j] = IF ok THEN AfterSpawn(@) ELSE [@ EXCEPT !.wpc = "errmsg"]]
    /\ term' = IF ok \/ jobs[j].sudo THEN term ELSE [term EXCEPT ![j] = 0]
    /\ UNCHANGED <<ctl, env, chan>>

\* format!("{}\n", password): the bytes execute_sudo writes
PasswordLine == <<"password", "newline">>

\* execute_sudo: stdin.write_all(password + "\n").  The write can fail only
\* on a pipe whose reading end is closed, that is, once the child has exited.
WorkerWritePassword(j, ok) ==
    /\ jobs[j].wpc = "stdin"
    /\ ok \/ jobs[j].proc = "exited"
    /\ jobs' = [jobs EXCEPT ![j] =
                  IF ok THEN [@ EXCEPT !.stdin = Append(@, PasswordLine),
                                       !.wpc = "loop", !.rdOut = "run", !.rdErr = "run"]
                  ELSE [@ EXCEPT !.stdin = Append(@, PasswordLine), !.wpc = "errmsg"]]
    /\ UNCHANGED <<ctl, env, chan, term>>

\* The worker thread has sent Finished and ends: its locals are gone.
Ended(jb) ==
    [jb EXCEPT !.wpc = "done", !.sudo = FALSE, !.status = None, !.stdin = <<>>, !.fin = @ + 1]

\* a failure path that ends with Finished(None)
WorkerErrFinishedNone(j) ==
    /\ jobs[j].wpc = "errfin"
    /\ chan' = Send(j, Finished(None))
    /\ jobs' = [jobs EXCEPT ![j] = Ended(@)]
    /\ term' = [term EXCEPT ![j] = 0]
    /\ UNCHANGED <<ctl, env>>

\* the failure paths: one synthetic Stderr line ...
WorkerErrLine(j) ==
    /\ jobs[j].wpc = "errmsg"
    /\ chan' = Send(j, Stderr(Line("fail", j, 0)))
    /\ jobs' = [jobs EXCEPT ![j].wpc = "errfin"]
    /\ UNCHANGED <<ctl, env, term>>

\* ... followed by Finished(Some(-1))
WorkerErrFinished(j) ==
    /\ jobs[j].wpc = "errfin"
    /\ chan' = Send(j, Finished(Some(FailCode)))
    /\ jobs' = [jobs EXCEPT ![j] = Ended(@)]
    /\ term' = [term EXCEPT ![j] = 0]
    /\ UNCHANGED <<ctl, env>>

\* child.kill(): SIGKILL ends a live process and does nothing to one that
\* has already exited
Kill(p) == IF p = "alive" THEN "killed" ELSE p

\* a supervisor that leaves the loop on a signal without killing the child
SupervisorExitNoKill(jb, signalled, waitErr, c) ==
    IF signalled THEN [jb EXCEPT !.status = None, !.wpc = "join"]
    ELSE IF waitErr THEN [jb EXCEPT !.status = None, !.wpc = "join"]
    ELSE [jb EXCEPT !.status = Some(c), !.wpc = "join"]

\* a supervisor that only ever leaves the loop on a signal
SupervisorExitStay(jb, signalled, waitErr, c) ==
    IF signalled THEN [jb EXCEPT !.proc = Kill(@), !.status = None, !.wpc = "join"]
    ELSE jb

\* a supervisor that reports an exit code for the process it killed
SupervisorExitKeepCode(jb, signalled, waitErr, c) ==
    IF signalled THEN [jb EXCEPT !.proc = Kill(@), !.status = Some(c), !.wpc = "join"]
    ELSE IF waitErr THEN [jb EXCEPT !.status = None, !.wpc = "join"]
    ELSE [jb EXCEPT !.status = Some(c), !.wpc = "join"]

\* one iteration of the supervising loop that leaves the loop, as the job
\* state after it: signalled says terminate_rx.try_recv() returned a signal,
\* waitErr that child.try_wait() failed, c is the code of an exited process.
\* try_wait fails only for a child that can no longer be waited for, one
\* that has exited and was reaped behind the thread's back.
SupervisorExit(jb, signalled, waitErr, c) ==
    IF signalled THEN [jb EXCEPT !.proc = Kill(@), !.status = None, !.wpc = "join"]
    ELSE IF waitErr THEN [jb EXCEPT !.status = None, !.wpc = "join"]
    ELSE [jb EXCEPT !.status = Some(c), !.wpc = "join"]

\* The supervising loop of job j.  An iteration that finds no signal and a
\* live process sleeps and changes nothing; every other iteration leaves the
\* loop.
SupervisorPoll(j, waitErr, c) ==
    /\ jobs[j].wpc = "loop"
    /\ term[j] > 0 \/ jobs[j].proc = "exited"
    /\ waitErr => (term[j] = 0 /\ c = 0)
    /\ term[j] > 0 => c = 0
    /\ jobs' = [jobs EXCEPT ![j] = SupervisorExit(@, term[j] > 0, waitErr, c)]
    /\ term' = IF term[j] > 0 THEN [term EXCEPT ![j] = @ - 1] ELSE term
    /\ UNCHANGED <<ctl, env, chan>>

\* both reader threads of the job have ended
ReadersDone(jb) == jb.rdOut = "done" /\ jb.rdErr = "done"

\* a worker that sends Finished without joining the reader threads
WorkerFinishNoJoin(j) ==
    /\ jobs[j].wpc = "join"
    /\ chan' = Send(j, Finished(jobs[j].status))
    /\ jobs' = [jobs EXCEPT ![j] = Ended(@)]
    /\ term' = [term EXCEPT ![j] = 0]
    /\ UNCHANGED <<ctl, env>>

\* stdout_thread.join(); stderr_thread.join(); then
\* output_tx.send(Finished(exit_status.and_then(|s| s.code())))
WorkerFinish(j) ==
    /\ jobs[j].wpc = "join"
    /\ ReadersDone(jobs[j])
    /\ chan' = Send(j, Finished(jobs[j].status))
    /\ jobs' = [jobs EXCEPT ![j] = Ended(@)]
    /\ term' = [term EXCEPT ![j] = 0]
    /\ UNCHANGED <<ctl, env>>

\* ------------------------------------------------------------ the readers

\* A pipe shows the engine a line only when a reader takes it, so the model
\* lets the process write a line at the moment it is read: the process writes
\* at most max lines to a stream, in the order of their numbers, and a line
\* read after the process ended was written before it ended.  n lines were
\* read so far.
LineReady(n, max) == n < max

\* read() returns end of file once the process has ended and its lines were read
AtEof(jb) == jb.proc # "alive"

\* a reader after its send of a line: it goes on, or breaks when the send failed
AfterSend(rd, sent) == IF sent THEN "run" ELSE "done"

\* the stdout reader of job j reads a line and sends it
ReadOutLine(j) ==
    /\ jobs[j].rdOut = "run"
    /\ LineReady(jobs[j].rOut, MaxOut)
    /\ chan' = Send(j, Stdout(Line("out", j, jobs[j].rOut + 1)))
    /\ jobs' = [jobs EXCEPT ![j].rOut = IF SendOk(j) THEN @ + 1 ELSE @,
                            ![j].rdOut = AfterSend(@, SendOk(j))]
    /\ UNCHANGED <<ctl, env, term>>

\* the stdout reader of job j reads end of file and ends
ReadOutEof(j) ==
    /\ jobs[j].rdOut = "run"
    /\ AtEof(jobs[j])
    /\ jobs' = [jobs EXCEPT ![j].rdOut = "done"]
    /\ UNCHANGED <<ctl, env, chan, term>>

\* the stderr reader of job j reads a line and sends it
ReadErrLine(j) ==
    /\ jobs[j].rdErr = "run"
    /\ LineReady(jobs[j].rErr, MaxErr)
    /\ chan' = Send(j, Stderr(Line("err", j, jobs[j].rErr + 1)))
    /\ jobs' = [jobs EXCEPT ![j].rErr = IF SendOk(j) THEN @ + 1 ELSE @,
                            ![j].rdErr = AfterSend(@, SendOk(j))]
    /\ UNCHANGED <<ctl, env, term>>

\* the stderr reader of job j reads end of file and ends
ReadErrEof(j) ==
    /\ jobs[j].rdErr = "run"
    /\ AtEof(jobs[j])
    /\ jobs' = [jobs EXCEPT ![j].rdErr = "done"]
    /\ UNCHANGED <<ctl, env, chan, term>>

\* ------------------------------------------------------- the specification

CdTargets == Dirs \cup {"missing"}

\* the listings the engine's specification tries: none, and a full one
CdListings == {[ok |-> FALSE, out |-> 0, err |-> 0], [ok |-> TRUE, out |-> MaxLs, err |-> 0]}

\* the steps of the threads and the process of job j
JobStep(j) ==
    \/ ProcExit(j)
    \/ \E ok \in BOOLEAN : WorkerSpawn(j, ok)
    \/ \E ok \in BOOLEAN : WorkerWritePassword(j, ok)
    \/ WorkerErrLine(j)
    \/ WorkerErrFinished(j)
    \/ \E waitErr \in BOOLEAN, c \in ExitCodes : SupervisorPoll(j, waitErr, c)
    \/ WorkerFinish(j)
    \/ ReadOutLine(j)
    \/ ReadOutEof(j)
    \/ ReadErrLine(j)
    \/ ReadErrEof(j)

\* The engine under every interleaving of the controller's calls with the
\* threads of the commands; the clock stands still.
Next ==
    \/ Terminate
    \/ ExecuteCdNoHome
    \/ \E target \in Dirs : ExecuteCdNoCwd(target)
    \/ \E target \in CdTargets, ls \in CdListings : ExecuteCd(target, ls)
    \/ ExecuteEmpty
    \/ \E isSudoLine \in BOOLEAN : Execute(isSudoLine)
    \/ ExecuteSudo
    \/ CheckOutput
    \/ \E j \in JobIds : JobStep(j)

Spec == Init /\ [][Next]_vars

\* the worker thread of job j
WorkerStep(j) ==
    \/ \E ok \in BOOLEAN : WorkerSpawn(j, ok)
    \/ \E ok \in BOOLEAN : WorkerWritePassword(j, ok)
    \/ WorkerErrLine(j)
    \/ WorkerErrFinished(j)
    \/ \E waitErr \in BOOLEAN, c \in ExitCodes : SupervisorPoll(j, waitErr, c)
    \/ WorkerFinish(j)

\* Commands are started one after the other and polled; nothing is
\* cancelled by hand.
NextLive ==
    \/ \E isSudoLine \in BOOLEAN : Execute(isSudoLine)
    \/ ExecuteSudo
    \/ CheckOutput
    \/ \E j \in JobIds : JobStep(j)

\* The scheduler runs every thread that can take a step, the controller
\* polls on every tick, a reader at end of file sees it, and the process of
\* the last command started ends on its own.  No line has to be written and
\* no other process has to end.
Fairness ==
    /\ WF_vars(CheckOutput)
    /\ WF_vars(ProcExit(MaxJobs))
    /\ \A j \in JobIds :
          WF_vars(WorkerStep(j)) /\ WF_vars(ReadOutEof(j)) /\ WF_vars(ReadErrEof(j))

SpecLive == Init /\ [][NextLive]_vars /\ Fairness

\* ---------------------------------------------------------- the controller

\* A command line is the sequence of its words.  The lines the user enters:
\* a plain command and one that asks for sudo; a click on a file builds
\* "sudo nano <file>".
Commands == {<<"ls">>, <<"sudo", "ls">>}
FileCommand == <<"sudo", "nano", "file">>

\* the characters the user types into the password prompt
PwChars == {"x", "y"}

\* command.trim().starts_with("sudo "): "sudo" and at least one more word
IsSudoCommand(cmd) == Len(cmd) > 1 /\ Head(cmd) = "sudo"

\* History::add returns at once: an empty command or a repeat of the most
\* recent one
HistorySkips(h, cmd) == cmd = <<>> \/ (h # <<>> /\ Head(h) = cmd)

\* a trim that pops the front instead of the back
TrimFront(h, max) == IF Len(h) > max THEN SubSeq(h, Len(h) - max + 1, Len(h)) ELSE h

\* the list h with its back popped until it holds no more than max entries
Trim(h, max) == IF Len(h) > max THEN SubSeq(h, 1, max) ELSE h

\* History::add on the list h: nothing when it returns at once, else push
\* to the front and drop from the back what exceeds max_history
HistoryAdd(h, cmd) ==
    IF HistorySkips(h, cmd) THEN h ELSE Trim(<<cmd>> \o h, max_history)

\* History::add, the cursor: reset unless add returns at once
HistoryAddPosition(h, cmd) ==
    IF HistorySkips(h, cmd) THEN current_position ELSE None

\* self.history.add(command) in a handler
HistoryAddCall(cmd) ==
    /\ history' = HistoryAdd(history, cmd)
    /\ current_position' = HistoryAddPosition(history, cmd)
    /\ UNCHANGED max_history

\* what the controller does not own: the engine, its threads, the environment
engine == <<output_rx, terminate_tx, result, sudo_timestamp, nJobs, seen, cancelled,
            now, ticks, cwd, jobs, chan, term>>

\* The engine with a running clock: commands are started and polled while
\* time passes between the calls.
NextClock ==
    \/ Tick
    \/ \E isSudoLine \in BOOLEAN : Execute(isSudoLine)
    \/ ExecuteSudo
    \/ CheckOutput
    \/ \E j \in JobIds : JobStep(j)

SpecClock == Init /\ [][NextClock]_vars

\* ------------------------------------------------------------- the claims

\* the lines of the events of q that have tag t, in order
RECURSIVE LinesOf(_, _)
LinesOf(q, t) ==
    IF q = <<>> THEN <<>>
    ELSE (IF Head(q).t = t THEN <<Head(q).line>> ELSE <<>>) \o LinesOf(Tail(q), t)

HasFinished(q) == \E i \in 1..Len(q) : q[i].t = "Finished"

\* the first n lines job j's process writes to the stream k
JobLines(k, j, n) == [i \in 1..n |-> Line(k, j, i)]

Alive == {j \in JobIds : jobs[j].proc = "alive"}

\* a step of execute or execute_sudo that starts a command
StartStep == nJobs' = nJobs + 1

\* C1 (as stated): whenever execute or execute_sudo starts a command while
\* the previous one is still running (its Finished not consumed, not
\* cancelled), a termination signal is in the previous command's terminate
\* channel before the new worker has spawned anything.
C1_SignalAlwaysPlaced ==
    [][(StartStep /\ output_rx # 0) => term'[output_rx] > 0]_vars

\* C1 (amended): when a command is started while the previous one is still
\* running, terminate() runs before the new worker has spawned anything: if
\* the previous worker still holds its terminate receiver exactly one signal
\* is added to that channel, otherwise (the worker has returned) nothing is
\* placed and no process of it is alive; and a supervisor that leaves its
\* loop with a signal pending has taken the signal and killed its process.
C1_SignalBeforeSpawn ==
    [][/\ (StartStep /\ output_rx # 0) =>
            /\ jobs'[nJobs'].wpc = "start" /\ jobs'[nJobs'].proc = "none"
            /\ TermRxAlive(output_rx) => term'[output_rx] = term[output_rx] + 1
            /\ ~TermRxAlive(output_rx) =>
                  term'[output_rx] = 0 /\ jobs[output_rx].proc # "alive"
       /\ \A j \in JobIds :
            (jobs[j].wpc = "loop" /\ term[j] > 0 /\ jobs'[j].wpc # "loop") =>
                /\ jobs'[j].proc # "alive"
                /\ jobs'[j].status = None
                /\ term'[j] = term[j] - 1]_vars

\* C1 witness: the first command was superseded while running and its
\* supervisor killed its process.
C1_Witness ==
    nJobs >= 2 /\ jobs[1].proc = "killed" /\ 1 \notin seen /\ cancelled = 0

\* C2 (as stated): at most one external process started by the engine is alive.
C2_AtMostOneAlive == Cardinality(Alive) <= 1

\* C2 (amended): at most one live process has not been sent a termination
\* signal: every live process other than the current command's has a signal
\* pending in its terminate channel and a supervisor that has yet to poll it.
C2_OnlyCurrentUnsignalled ==
    \A j \in Alive :
        j # output_rx => (term[j] > 0 /\ jobs[j].wpc \in {"stdin", "loop"})

\* C2 witness: two processes are alive, the older one signalled.
C2_Witness == Cardinality(Alive) = 2 /\ output_rx = 2 /\ term[1] > 0

\* C3: a worker sends at most one Finished event, exactly one by the time it
\* ends, and only when no reader thread of its command is running and the
\* supervising loop is over; in a channel, Finished is the last event.
C3_OneFinishedLast ==
    \A j \in JobIds :
        /\ jobs[j].fin <= 1
        /\ (jobs[j].wpc = "done") <=> (jobs[j].fin = 1)
        /\ jobs[j].fin = 1 => (jobs[j].rdOut # "run" /\ jobs[j].rdErr # "run")
        /\ \A i \in 1..Len(chan[j]) : chan[j][i].t = "Finished" => i = Len(chan[j])

\* C3 witness: a channel holds lines of both streams and then Finished.
C3_Witness ==
    \E j \in JobIds :
        /\ Len(chan[j]) = 3
        /\ chan[j][3].t = "Finished"
        /\ {chan[j][1].t, chan[j][2].t} = {"Stdout", "Stderr"}

\* the lines of a result that a command's threads sent (not the lines of a cd)
FromJob(l) == l.k \in {"out", "err", "fail"}

C5_OnlyCurrentLines ==
    /\ \A i \in 1..Len(result.stdout) :
          FromJob(result.stdout[i]) => result.stdout[i].j = nJobs
    /\ \A i \in 1..Len(result.stderr) :
          FromJob(result.stderr[i]) => result.stderr[i].j = nJobs
    /\ is_running =>
          /\ output_rx = nJobs
          /\ \A i \in 1..Len(result.stdout) : FromJob(result.stdout[i])
          /\ \A i \in 1..Len(result.stderr) : FromJob(result.stderr[i])

\* C5 witness: the second command's lines are in the result while the
\* first command's threads are still at work.
C5_Witness ==
    /\ nJobs = 2 /\ output_rx = 2
    /\ Len(result.stdout) > 0 /\ Len(result.stderr) > 0
    /\ jobs[1].wpc = "loop" /\ jobs[1].rdOut = "run"

\* the command's reader threads were started and no synthetic line was sent
NoFailLine == \A i \in 1..Len(result.stderr) : result.stderr[i].k # "fail"

PollStep ==
    /\ output_rx # 0 /\ nJobs' = nJobs
    /\ seen' # seen \/ (result' # result /\ output_rx' = output_rx)

\* C7: a check_output that receives events empties the channel and appends
\* every line received, in order; if a Finished(code) is among them, then
\* after it exit_code is code, is_running() is false and terminate_tx is None.
C7_DrainAll ==
    [][PollStep =>
        LET q == chan[output_rx] IN
        /\ chan'[output_rx] = <<>>
        /\ result'.stdout = result.stdout \o LinesOf(q, "Stdout")
        /\ result'.stderr = result.stderr \o LinesOf(q, "Stderr")
        /\ HasFinished(q) =>
              /\ result'.exit_code = q[Len(q)].code
              /\ output_rx' = 0 /\ terminate_tx' = 0
              /\ seen' = seen \cup {output_rx}
        /\ ~HasFinished(q) =>
              /\ result'.exit_code = result.exit_code
              /\ output_rx' = output_rx /\ terminate_tx' = terminate_tx]_vars

\* C7 witness: a poll took lines and a Finished with an exit code at once.
C7_Witness ==
    /\ seen # {} /\ ~is_running
    /\ result.exit_code = Some(1)
    /\ Len(result.stdout) = MaxOut

\* C8: with no event pending, check_output returns false and changes
\* nothing: no step of it changes any variable, running or not.
C8_IdlePollNoop ==
    Pending = <<>> =>
        /\ ~ENABLED <<CheckOutput>>_vars
        /\ ~CheckOutputPost(output_rx, terminate_tx, result, Pending).ret

\* C8 witness: a command is running, lines were received, none is pending.
C8_Witness ==
    is_running /\ Pending = <<>> /\ Len(result.stdout) > 0 /\ sudo_timestamp.some

\* signals in flight in the terminate channels tch
RECURSIVE SumUpTo(_, _)
SumUpTo(tch, n) == IF n = 0 THEN 0 ELSE tch[n] + SumUpTo(tch, n - 1)

Signals(tch) == SumUpTo(tch, MaxJobs)

C10_CancelObserved ==
    \A j \in JobIds :
        (cancelled = j /\ jobs[j].wpc = "done" /\ jobs[j].proc = "killed") =>
            (j \in seen \/ (output_rx = j /\ HasFinished(chan[j])))

\* C11: the terminal states are stable.  While is_running() is false, no
\* check_output, no terminate and no step of a command's threads changes the
\* result or makes is_running() true; is_running() becomes true only by an
\* execute of a program other than cd or an execute_sudo, for the command
\* that call starts.
C11_TerminalStable ==
    [][/\ (~is_running /\ (CheckOutput \/ Terminate \/ \E j \in JobIds : JobStep(j))) =>
            (~is_running' /\ result' = result)
       /\ (~is_running /\ is_running') => (StartStep /\ output_rx' = nJobs')]_vars

\* C11 witness: a command has finished with an exit code and lines, nothing
\* is running, and the threads of an earlier command are still at work.
C11_Witness ==
    /\ ~is_running /\ seen # {} /\ result.exit_code.some /\ Len(result.stdout) > 0
    /\ \E j \in JobIds : jobs[j].wpc = "loop" /\ term[j] > 0

\* C12: while is_running() is true the result's exit code is absent.
C12_RunningNoExitCode == is_running => result.exit_code = None

\* C12 witness: a command is running and has delivered lines after an
\* earlier command finished with an exit code.
C12_Witness == is_running /\ 1 \in seen /\ Len(result.stdout) > 0

\* the program of job j could not be spawned
SpawnFailed(j) == jobs[j].proc = "none" /\ jobs[j].wpc \in {"errmsg", "errfin", "done"}

\* the result after a failed start of job j was polled to its end
FailedResult(j) ==
    [exit_code |-> Some(FailCode), stdout |-> <<>>, stderr |-> <<Line("fail", j, 0)>>]

\* C13: when spawning the program fails, execute (or execute_sudo) has
\* returned with is_running() true before the worker tries to spawn; the
\* worker emits one synthetic Stderr event and then Finished(-1) and nothing
\* else; the poll that receives the Finished leaves the result with that one
\* stderr line, no stdout line and exit code -1.
C13_SpawnFailureFolded ==
    [][/\ StartStep => (is_running' /\ jobs'[nJobs'].wpc = "start")
       /\ \A j \in JobIds : (SpawnFailed(j) /\ output_rx = j) =>
            /\ result.exit_code = None /\ result.stdout = <<>>
            /\ LinesOf(chan[j], "Stdout") = <<>>
            /\ result.stderr \o LinesOf(chan[j], "Stderr")
                  = IF jobs[j].wpc = "errmsg" THEN <<>> ELSE <<Line("fail", j, 0)>>
            /\ HasFinished(chan[j]) <=> jobs[j].wpc = "done"
            /\ HasFinished(chan[j]) => chan[j][Len(chan[j])] = Finished(Some(FailCode))
       /\ (seen' # seen /\ jobs[output_rx].proc = "none") =>
            (result' = FailedResult(output_rx) /\ ~is_running')]_vars

\* C13 witness: the failed start of the last command was polled to its end.
C13_Witness ==
    nJobs > 0 /\ nJobs \in seen /\ ~is_running /\ result = FailedResult(nJobs)

\* C14 (as stated): the code carried by Finished is absent whenever the
\* supervisor killed the process or the start of the process failed, and is
\* present only for a process that exited on its own with a code.
C14_AbsentOnFailure ==
    \A j \in JobIds :
        /\ jobs[j].wpc = "join" =>
              /\ jobs[j].proc = "killed" => jobs[j].status = None
              /\ jobs[j].status.some => jobs[j].proc = "exited"
        /\ HasFinished(chan[j]) =>
              LET c == chan[j][Len(chan[j])].code IN
              /\ (jobs[j].proc \in {"none", "killed"} \/ jobs[j].rdOut = "idle") => c = None
              /\ c.some => (jobs[j].proc = "exited" /\ c.v \in ExitCodes)

\* C14 (amended): the code carried by Finished is absent whenever the
\* supervisor left its loop on a cancellation request, having killed the
\* process; it is the sentinel -1 exactly when the start failed (no reader
\* was started); any other code is the code of a process that exited on its own.
C14_AbsentWhenKilled ==
    \A j \in JobIds :
        /\ jobs[j].wpc = "join" =>
              /\ jobs[j].proc = "killed" => jobs[j].status = None
              /\ jobs[j].status.some =>
                    (jobs[j].proc = "exited" /\ jobs[j].status.v \in ExitCodes)
        /\ HasFinished(chan[j]) =>
              LET c == chan[j][Len(chan[j])].code IN
              /\ (jobs[j].rdOut = "idle") <=> (c = Some(FailCode))
              /\ jobs[j].proc = "killed" => c = None
              /\ (c.some /\ c # Some(FailCode)) =>
                    (jobs[j].proc = "exited" /\ c.v \in ExitCodes)

\* C14 witness: one supervisor has killed its process and is about to send
\* Finished, and the Finished of a failed start is in the other channel.
C14_Witness ==
    /\ jobs[1].wpc = "join" /\ jobs[1].proc = "killed"
    /\ jobs[2].proc = "none" /\ HasFinished(chan[2])

\* C15: execute of "cd <target>" whose change of directory fails leaves the
\* working directory as it was, sets exit code 1, leaves one non-empty line
\* in stderr and none in stdout, starts no worker (is_running() is false) and
\* returns Ok.
C15_CdFailure ==
    [][\A target \in CdTargets \ Dirs, ls \in CdListings :
          ExecuteCd(target, ls) =>
              /\ cwd' = cwd
              /\ result'.exit_code = Some(1)
              /\ result'.stdout = <<>>
              /\ Len(result'.stderr) = 1 /\ result'.stderr[1] # NoLine
              /\ ~is_running' /\ nJobs' = nJobs
              /\ \A j \in JobIds : jobs'[j].wpc = jobs[j].wpc
              /\ ExecuteOk("cd")]_vars

\* C15 witness: a cd failed after an earlier cd had left the home directory.
C15_Witness ==
    /\ cwd = "work" /\ ~is_running
    /\ result = [exit_code |-> Some(1), stdout |-> <<>>, stderr |-> <<Line("cderr", 0, 0)>>]

\* a step of execute of a cd command
CdStep ==
    \/ ExecuteCdNoHome
    \/ \E target \in Dirs : ExecuteCdNoCwd(target)
    \/ \E target \in CdTargets, ls \in CdListings : ExecuteCd(target, ls)

\* C16: every execute of a cd command has set the exit code, to 0 or 1, when
\* it returns, and leaves is_running() false; on success the first stdout
\* line is the confirmation line and the lines of the listing follow it.
C16_CdSetsExitCode ==
    [][CdStep =>
          /\ result'.exit_code \in {Some(0), Some(1)}
          /\ ~is_running'
          /\ result'.exit_code = Some(0) =>
                /\ Len(result'.stdout) >= 1
                /\ result'.stdout[1] = Line("cd", 0, 0)
                /\ \A i \in 2..Len(result'.stdout) : result'.stdout[i] = Line("ls", 0, i - 1)]_vars

\* C17 (as stated): execute of a line "sudo <args>" sets the session
\* timestamp to the current time, whether or not a session was valid before,
\* so that is_sudo_session_valid() is true right after the call.
C17_SudoLineStamps ==
    [][Execute(TRUE) =>
          (sudo_timestamp' = Some(now) /\ SessionValid(sudo_timestamp', now'))]_vars

\* C17 (amended): execute of a line "sudo <args>" sets the session timestamp
\* to the current time, before the worker has spawned anything, only if a
\* session is valid at entry; otherwise it leaves the timestamp as it is and
\* is_sudo_session_valid() stays false.  execute of any other line leaves the
\* timestamp alone, and execute_sudo always sets it to the current time.
C17_SudoLineRefreshes ==
    [][/\ Execute(TRUE) =>
            /\ jobs'[nJobs'].wpc = "start"
            /\ is_sudo_session_valid =>
                  (sudo_timestamp' = Some(now) /\ SessionValid(sudo_timestamp', now'))
            /\ ~is_sudo_session_valid =>
                  (sudo_timestamp' = sudo_timestamp /\ ~SessionValid(sudo_timestamp', now'))
       /\ Execute(FALSE) => sudo_timestamp' = sudo_timestamp
       /\ ExecuteSudo => (sudo_timestamp' = Some(now) /\ SessionValid(sudo_timestamp', now'))]_vars

\* C17 witness: a session opened by execute_sudo at time 0 was refreshed by
\* an execute at a later time, within the window.
C17_Witness ==
    /\ nJobs = 2 /\ jobs[2].wpc = "start" /\ ~jobs[2].sudo
    /\ jobs[1].sudo
    /\ now = TickLen /\ sudo_timestamp = Some(TickLen)

\* C20: is_sudo_session_valid() is true exactly when a timestamp is recorded
\* and less than 15 minutes have passed since: false without a timestamp and
\* false at exactly 15 minutes.
C20_SessionWindow ==
    /\ ~sudo_timestamp.some => ~is_sudo_session_valid
    /\ sudo_timestamp.some =>
          /\ now - sudo_timestamp.v < 15 * 60 => is_sudo_session_valid
          /\ now - sudo_timestamp.v >= 15 * 60 => ~is_sudo_session_valid

\* C20 witness: exactly 15 minutes have passed since the timestamp.
C20_Witness == sudo_timestamp.some /\ now - sudo_timestamp.v = 15 * 60

\* the reader threads of a job were not started and nothing was read
NoReader(jb) == jb.rdOut = "idle" /\ jb.rdErr = "idle" /\ jb.rOut = 0 /\ jb.rErr = 0

\* C18: the worker of execute_sudo writes the password followed by a newline
\* to the child's stdin exactly once, before either reader thread is started
\* and so before any line of the command is produced; if the write fails, one
\* Stderr event and then Finished(-1) are sent and no reader is started.
C18_PasswordBeforeReaders ==
    \A j \in JobIds :
        /\ jobs[j].sudo =>
              /\ jobs[j].wpc \in {"start", "stdin"} =>
                    (jobs[j].stdin = <<>> /\ NoReader(jobs[j]) /\ chan[j] = <<>>)
              /\ jobs[j].wpc \in {"loop", "join"} => jobs[j].stdin = <<PasswordLine>>
              /\ ~NoReader(jobs[j]) => jobs[j].stdin = <<PasswordLine>>
              /\ jobs[j].wpc \in {"errmsg", "errfin"} =>
                    /\ NoReader(jobs[j])
                    /\ jobs[j].stdin = IF jobs[j].proc = "none" THEN <<>> ELSE <<PasswordLine>>
                    /\ output_rx = j =>
                          /\ result.stdout = <<>> /\ LinesOf(chan[j], "Stdout") = <<>>
                          /\ ~HasFinished(chan[j])
                          /\ result.stderr \o LinesOf(chan[j], "Stderr")
                                = IF jobs[j].wpc = "errmsg" THEN <<>>
                                  ELSE <<Line("fail", j, 0)>>
        /\ (jobs[j].wpc = "done" /\ jobs[j].rdOut = "idle" /\ output_rx = j) =>
              /\ NoReader(jobs[j])
              /\ result.stderr \o LinesOf(chan[j], "Stderr") = <<Line("fail", j, 0)>>
              /\ chan[j] # <<>> /\ chan[j][Len(chan[j])] = Finished(Some(FailCode))

\* C18 witness: the write of the password failed and the synthetic Stderr
\* event is in the channel; Finished(-1) is to follow.
C18_Witness ==
    \E j \in JobIds :
        /\ jobs[j].sudo /\ jobs[j].wpc = "errfin" /\ jobs[j].proc = "exited"
        /\ output_rx = j /\ chan[j] = <<Stderr(Line("fail", j, 0))>>

\* the words of the history entries
HistoryWords == UNION {{history[i][k] : k \in 1..Len(history[i])} : i \in 1..Len(history)}

\* the lines of the result and of the events in flight
AllLines ==
    {result.stdout[i] : i \in 1..Len(result.stdout)}
        \cup {result.stderr[i] : i \in 1..Len(result.stderr)}
        \cup UNION {{chan[j][i].line : i \in 1..Len(chan[j])} : j \in JobIds}

Quote == "\""
Backslash == "\\"
Space == " "
Tab == "\t"
Letter == "a"
Chars == {Letter, Space, Tab, Quote, Backslash}

\* a whitespace test that knows the space only
IsSpaceOnly(c) == c = Space

\* char::is_whitespace, on the characters of the model
is_whitespace(c) == c \in {Space, Tab}

\* Token
Token(text, from, to) == [text |-> text, range |-> <<from, to>>]

\* the locals of tokenize before the first character
ScanStart ==
    [tokens |-> <<>>, current_token |-> <<>>, in_quotes |-> FALSE,
     escaped |-> FALSE, start_pos |-> 0]

\* a loop turn for which a tab is an ordinary character
ScanCharNoTab(st, c, i) ==
    IF st.escaped THEN
        [st EXCEPT !.current_token = Append(@, c), !.escaped = FALSE]
    ELSE IF c = Backslash THEN
        [st EXCEPT !.escaped = TRUE]
    ELSE IF c = Quote THEN
        [st EXCEPT !.in_quotes = ~@]
    ELSE IF c = Space /\ ~st.in_quotes THEN
        IF st.current_token # <<>> THEN
            [st EXCEPT !.tokens = Append(@, Token(st.current_token, st.start_pos, i)),
                       !.current_token = <<>>,
                       !.start_pos = i + 1]
        ELSE
            [st EXCEPT !.start_pos = i + 1]
    ELSE
        [st EXCEPT !.current_token = Append(@, c)]

\* a loop turn that appends the double quote it toggles on
ScanCharKeepQuote(st, c, i) ==
    IF st.escaped THEN
        [st EXCEPT !.current_token = Append(@, c), !.escaped = FALSE]
    ELSE IF c = Backslash THEN
        [st EXCEPT !.escaped = TRUE]
    ELSE IF c = Quote THEN
        [st EXCEPT !.in_quotes = ~@, !.current_token = Append(@, c)]
    ELSE IF c \in {Space, Tab} /\ ~st.in_quotes THEN
        IF st.current_token # <<>> THEN
            [st EXCEPT !.tokens = Append(@, Token(st.current_token, st.start_pos, i)),
                       !.current_token = <<>>,
                       !.start_pos = i + 1]
        ELSE
            [st EXCEPT !.start_pos = i + 1]
    ELSE
        [st EXCEPT !.current_token = Append(@, c)]

\* a loop turn that appends the escaping backslash
ScanCharKeepBackslash(st, c, i) ==
    IF st.escaped THEN
        [st EXCEPT !.current_token = Append(@, c), !.escaped = FALSE]
    ELSE IF c = Backslash THEN
        [st EXCEPT !.escaped = TRUE, !.current_token = Append(@, c)]
    ELSE IF c = Quote THEN
        [st EXCEPT !.in_quotes = ~@]
    ELSE IF c \in {Space, Tab} /\ ~st.in_quotes THEN
        IF st.current_token # <<>> THEN
            [st EXCEPT !.tokens = Append(@, Token(st.current_token, st.start_pos, i)),
                       !.current_token = <<>>,
                       !.start_pos = i + 1]
        ELSE
            [st EXCEPT !.start_pos = i + 1]
    ELSE
        [st EXCEPT !.current_token = Append(@, c)]

\* a loop turn that leaves start_pos alone when it skips whitespace
ScanCharNoSkip(st, c, i) ==
    IF st.escaped THEN
        [st EXCEPT !.current_token = Append(@, c), !.escaped = FALSE]
    ELSE IF c = Backslash THEN
        [st EXCEPT !.escaped = TRUE]
    ELSE IF c = Quote THEN
        [st EXCEPT !.in_quotes = ~@]
    ELSE IF c \in {Space, Tab} /\ ~st.in_quotes THEN
        IF st.current_token # <<>> THEN
            [st EXCEPT !.tokens = Append(@, Token(st.current_token, st.start_pos, i)),
                       !.current_token = <<>>,
                       !.start_pos = i + 1]
        ELSE
            st
    ELSE
        [st EXCEPT !.current_token = Append(@, c)]

\* one turn of the loop of tokenize: character c at byte index i
ScanChar(st, c, i) ==
    IF st.escaped THEN
        [st EXCEPT !.current_token = Append(@, c), !.escaped = FALSE]
    ELSE IF c = Backslash THEN
        [st EXCEPT !.escaped = TRUE]
    ELSE IF c = Quote THEN
        [st EXCEPT !.in_quotes = ~@]
    ELSE IF c \in {Space, Tab} /\ ~st.in_quotes THEN
        IF st.current_token # <<>> THEN
            [st EXCEPT !.tokens = Append(@, Token(st.current_token, st.start_pos, i)),
                       !.current_token = <<>>,
                       !.start_pos = i + 1]
        ELSE
            [st EXCEPT !.start_pos = i + 1]
    ELSE
        [st EXCEPT !.current_token = Append(@, c)]

\* the loop of tokenize over s from byte index i on
RECURSIVE Scan(_, _, _)
Scan(s, i, st) ==
    IF i = Len(s) THEN st ELSE Scan(s, i + 1, ScanChar(st, s[i + 1], i))

\* a tokenize that keeps the tokens completed before the failure
TokenizePartial(s) ==
    LET st == Scan(s, 0, ScanStart) IN
    IF st.in_quotes THEN
        [ret |-> UnmatchedQuote, tokens |-> st.tokens]
    ELSE IF st.current_token # <<>> THEN
        [ret |-> Ok,
         tokens |-> Append(st.tokens, Token(st.current_token, st.start_pos, Len(s)))]
    ELSE
        [ret |-> Ok, tokens |-> st.tokens]

\* tokenize: what it returns and what it leaves in self.tokens
Tokenize(s) ==
    LET st == Scan(s, 0, ScanStart) IN
    IF st.in_quotes THEN
        [ret |-> UnmatchedQuote, tokens |-> <<>>]
    ELSE IF st.current_token # <<>> THEN
        [ret |-> Ok,
         tokens |-> Append(st.tokens, Token(st.current_token, st.start_pos, Len(s)))]
    ELSE
        [ret |-> Ok, tokens |-> st.tokens]

\* a rebuild that never quotes
QuotedNever(text) == text

\* a rebuild that quotes only the texts with a space
QuotedSpaceOnly(text) ==
    IF \E k \in 1..Len(text) : text[k] = Space
    THEN <<Quote>> \o text \o <<Quote>>
    ELSE text

\* the text of one token in the rebuilt line
Quoted(text) ==
    IF \E k \in 1..Len(text) : is_whitespace(text[k])
    THEN <<Quote>> \o text \o <<Quote>>
    ELSE text

\* join(" ") of the quoted texts
RECURSIVE Join(_)
Join(ts) ==
    IF ts = <<>> THEN <<>>
    ELSE IF Len(ts) = 1 THEN Quoted(ts[1].text)
    ELSE Quoted(ts[1].text) \o <<Space>> \o Join(Tail(ts))

\* rebuild_raw_input
rebuild_raw_input(ts) == Join(ts)

\* set_input
SetInput(input) ==
    LET t == Tokenize(input) IN
    /\ raw_input' = input
    /\ tokens' = t.tokens
    /\ ret' = t.ret
    /\ UNCHANGED editing

\* clear
Clear ==
    /\ raw_input' = <<>>
    /\ tokens' = <<>>
    /\ editing' = NoText
    /\ ret' = Unit

\* start_editing
StartEditing(token_idx) ==
    IF token_idx >= Len(tokens) THEN
        /\ ret' = InvalidTokenIndex(token_idx)
        /\ UNCHANGED <<raw_input, tokens, editing>>
    ELSE
        /\ editing' = Some(tokens[token_idx + 1].text)
        /\ ret' = Ok
        /\ UNCHANGED <<raw_input, tokens>>

\* the token list after commit_edit has replaced one text
CommitTokens(token_idx) ==
    [tokens EXCEPT ![token_idx + 1].text = editing.v]

\* a commit_edit that takes the edited text before it checks the index
CommitEditTakes(token_idx) ==
    IF token_idx >= Len(tokens) THEN
        /\ ret' = InvalidTokenIndex(token_idx)
        /\ editing' = NoText
        /\ UNCHANGED <<raw_input, tokens>>
    ELSE IF editing.some THEN
        /\ tokens' = CommitTokens(token_idx)
        /\ raw_input' = rebuild_raw_input(CommitTokens(token_idx))
        /\ editing' = NoText
        /\ ret' = Ok
    ELSE
        /\ ret' = Ok
        /\ UNCHANGED <<raw_input, tokens, editing>>

\* a commit_edit that does not rebuild the line
CommitEditNoRebuild(token_idx) ==
    IF token_idx >= Len(tokens) THEN
        /\ ret' = InvalidTokenIndex(token_idx)
        /\ UNCHANGED <<raw_input, tokens, editing>>
    ELSE IF editing.some THEN
        /\ tokens' = CommitTokens(token_idx)
        /\ editing' = NoText
        /\ ret' = Ok
        /\ UNCHANGED raw_input
    ELSE
        /\ ret' = Ok
        /\ UNCHANGED <<raw_input, tokens, editing>>

\* a commit_edit that keeps the edited text in the scratch buffer
CommitEditKeepsScratch(token_idx) ==
    IF token_idx >= Len(tokens) THEN
        /\ ret' = InvalidTokenIndex(token_idx)
        /\ UNCHANGED <<raw_input, tokens, editing>>
    ELSE IF editing.some THEN
        /\ tokens' = CommitTokens(token_idx)
        /\ raw_input' = rebuild_raw_input(CommitTokens(token_idx))
        /\ ret' = Ok
        /\ UNCHANGED editing
    ELSE
        /\ ret' = Ok
        /\ UNCHANGED <<raw_input, tokens, editing>>

\* commit_edit
CommitEdit(token_idx) ==
    IF token_idx >= Len(tokens) THEN
        /\ ret' = InvalidTokenIndex(token_idx)
        /\ UNCHANGED <<raw_input, tokens, editing>>
    ELSE IF editing.some THEN
        /\ tokens' = CommitTokens(token_idx)
        /\ raw_input' = rebuild_raw_input(CommitTokens(token_idx))
        /\ editing' = NoText
        /\ ret' = Ok
    ELSE
        /\ ret' = Ok
        /\ UNCHANGED <<raw_input, tokens, editing>>

\* a cancel_edit that leaves the scratch buffer as it is
CancelEditKeeps ==
    /\ ret' = Unit
    /\ UNCHANGED <<raw_input, tokens, editing>>

\* cancel_edit
CancelEdit ==
    /\ editing' = NoText
    /\ ret' = Unit
    /\ UNCHANGED <<raw_input, tokens>>

\* update_editing
UpdateEditing(text) ==
    /\ editing' = Some(text)
    /\ ret' = Unit
    /\ UNCHANGED <<raw_input, tokens>>

\* s without its last character (String::pop)
Pop(s) == IF s = <<>> THEN s ELSE SubSeq(s, 1, Len(s) - 1)

\* the rest of the program, which the input line does not touch
rest == <<output_rx, terminate_tx, result, sudo_timestamp, nJobs, seen, cancelled,
          now, ticks, cwd, jobs, chan, term, ui, app>>

\* the calls a user of InputState makes: a line one character longer or
\* shorter than the current one, the edited text likewise, any index
InputSetPush == \E c \in Chars :
    Len(raw_input) < MaxLen /\ SetInput(Append(raw_input, c)) /\ UNCHANGED rest
InputSetPop == raw_input # <<>> /\ SetInput(Pop(raw_input)) /\ UNCHANGED rest
InputClear == Clear /\ UNCHANGED rest
InputStartEditing == \E i \in 0..MaxIdx : StartEditing(i) /\ UNCHANGED rest
InputUpdatePush == \E c \in Chars :
    Len(editing.v) < MaxEdit /\ UpdateEditing(Append(editing.v, c)) /\ UNCHANGED rest
InputUpdatePop == UpdateEditing(Pop(editing.v)) /\ UNCHANGED rest
InputCommitEdit == \E i \in 0..MaxIdx :
    /\ (i < Len(tokens) /\ editing.some)
            => Len(rebuild_raw_input(CommitTokens(i))) <= MaxRaw
    /\ CommitEdit(i)
    /\ UNCHANGED rest
InputCancelEdit == CancelEdit /\ UNCHANGED rest

NextInput ==
    \/ InputSetPush
    \/ InputSetPop
    \/ InputClear
    \/ InputStartEditing
    \/ InputUpdatePush
    \/ InputUpdatePop
    \/ InputCommitEdit
    \/ InputCancelEdit

SpecInput == Init /\ [][NextInput]_vars

\* ----------------------------------------------- claims about the input line
TokenTexts(ts) == [k \in 1..Len(ts) |-> ts[k].text]

InputTypeOk ==
    /\ ret.t \in {"Unit", "Ok", "UnmatchedQuote", "InvalidTokenIndex"}
    /\ \A k \in 1..Len(tokens) : tokens[k].range[1] <= tokens[k].range[2]

\* a text that the rebuilt line gives back: not empty, no quote, no backslash
Plain(text) ==
    /\ text # <<>>
    /\ \A k \in 1..Len(text) : text[k] \notin {Quote, Backslash}

\* the token texts are those of the tokenization of raw_input
TokensOfRaw == TokenTexts(tokens) = TokenTexts(Tokenize(raw_input).tokens)

\* C21 as stated: whenever no edit is in progress the token texts are the
\* token texts of the tokenization of raw_input.
C21_TokensOfRawAlways == ~editing.some => TokensOfRaw

\* C21: whenever no edit is in progress and every token text is non-empty
\* and holds no double quote and no backslash, the token texts are the token
\* texts of the tokenization of raw_input.
C21_TokensOfRawPlain ==
    (~editing.some /\ \A k \in 1..Len(tokens) : Plain(tokens[k].text)) => TokensOfRaw

\* C21 witness: a commit has replaced a text by a plain text with whitespace
\* (the range of the last token lies beyond the rebuilt line), no edit is in
\* progress.
C21_Witness ==
    /\ ~editing.some /\ ret = Ok /\ tokens # <<>>
    /\ \A k \in 1..Len(tokens) : Plain(tokens[k].text)
    /\ \E k \in 1..Len(tokens) : Quoted(tokens[k].text) # tokens[k].text
    /\ raw_input = rebuild_raw_input(tokens)
    /\ tokens[Len(tokens)].range[2] > Len(raw_input)

\* a step that is a call of set_input
SetInputStep == InputSetPush \/ InputSetPop

\* character k of s follows an odd number of consecutive backslashes
Escaped(s, k) ==
    \E n \in 1..(k - 1) :
        /\ n % 2 = 1
        /\ \A m \in (k - n)..(k - 1) : s[m] = Backslash
        /\ (k - n = 1 \/ s[k - n - 1] # Backslash)

\* the number of double quotes of s that are not escaped
UnescapedQuotes(s) == Cardinality({k \in 1..Len(s) : s[k] = Quote /\ ~Escaped(s, k)})

\* C22: set_input returns UnmatchedQuote exactly when the line holds an odd
\* number of unescaped double quotes, and then the token list is empty; in
\* every other case it returns Ok.
C22_UnmatchedQuote ==
    [][SetInputStep =>
        /\ ret'.t = "UnmatchedQuote" <=> UnescapedQuotes(raw_input') % 2 = 1
        /\ ret'.t = "UnmatchedQuote" => tokens' = <<>>
        /\ ret'.t # "UnmatchedQuote" => ret' = Ok]_vars

\* C22 witness: set_input failed on a line whose first token was complete
\* before the unmatched quote.
C22_Witness ==
    /\ ret = UnmatchedQuote /\ tokens = <<>>
    /\ Len(raw_input) >= 3 /\ raw_input[1] = Letter /\ raw_input[2] = Space

\* C23: a set_input that returns UnmatchedQuote leaves raw_input, tokens and
\* the text being edited as they were before the call.
C23_FailedSetInputKeepsState ==
    [][(SetInputStep /\ ret' = UnmatchedQuote)
            => UNCHANGED <<raw_input, tokens, editing>>]_vars

\* C24: start_editing(i) and commit_edit(i) with i >= tokens.len() return
\* InvalidTokenIndex(i) and leave tokens, raw_input and the text being edited
\* as they were.
C24_InvalidIndex ==
    [][\A i \in 0..MaxIdx :
        ((InputStartEditing \/ InputCommitEdit)
                /\ (StartEditing(i) \/ CommitEdit(i)) /\ i >= Len(tokens))
            => /\ ret' = InvalidTokenIndex(i)
               /\ UNCHANGED <<raw_input, tokens, editing>>]_vars

\* C24 witness: a call with the index just past a non-empty token list has
\* failed while a text was being edited.
C24_Witness ==
    /\ ret = InvalidTokenIndex(Len(tokens))
    /\ tokens # <<>> /\ editing.some /\ editing.v # <<>>

\* --------------------------------------------- the event loop (main.rs)
MaxCol == 5         \* largest column of a click in the input area

\* the Result of an InputState call met by the `?` operator: an Err ends
\* handle_key_event, handle_event and App::run
Propagate(r) == IF r.t \in {"UnmatchedQuote", "InvalidTokenIndex"} THEN "Err" ELSE "running"

\* App::run is in its loop and takes the next event
Reading == run_result = "running" /\ ~should_quit /\ ~sudo_password_prompt

\* str::width of a token text; the width of a tab depends on the version of
\* the unicode-width crate the build takes (0 or 1)
Width(text, tabw) ==
    Cardinality({k \in 1..Len(text) : text[k] # Tab})
        + tabw * Cardinality({k \in 1..Len(text) : text[k] = Tab})

\* get_token_at_position from token idx on, the token starting at current_pos
RECURSIVE get_token_at_position(_, _, _, _)
get_token_at_position(idx, current_pos, effective_x, tabw) ==
    IF idx >= Len(tokens) THEN None
    ELSE IF /\ effective_x >= current_pos
            /\ effective_x < current_pos + Width(tokens[idx + 1].text, tabw)
         THEN Some(idx)
         ELSE get_token_at_position(idx + 1,
                  current_pos + Width(tokens[idx + 1].text, tabw) + 1, effective_x, tabw)

\* Enter on a command line that does not ask for sudo: history, then execute
KeyEnterRun(cmd) ==
    /\ Reading /\ ~editing_token.some
    /\ ~IsSudoCommand(cmd)
    /\ Len(history) < MaxHist
    /\ HistoryAddCall(cmd)
    /\ ExecuteCall(FALSE)
    /\ ui_is_running' = TRUE
    /\ Clear
    /\ UNCHANGED <<sudo_password_prompt, sudo_password, sudo_command,
                   editing_token, should_quit, run_result, ui_output>>

\* Enter on a command line starting with "sudo ": history, then the prompt
KeyEnterSudo(cmd) ==
    /\ Reading /\ ~editing_token.some
    /\ IsSudoCommand(cmd)
    /\ Len(history) < MaxHist
    /\ HistoryAddCall(cmd)
    /\ sudo_password_prompt' = TRUE
    /\ sudo_command' = cmd
    /\ Clear
    /\ UNCHANGED <<sudo_password, engine, editing_token, should_quit, run_result, disp>>

\* a click on a file of the listing, with or without the prompt showing
MouseFile ==
    /\ run_result = "running" /\ ~should_quit
    /\ Len(history) < MaxHist
    /\ HistoryAddCall(FileCommand)
    /\ sudo_password_prompt' = TRUE
    /\ sudo_command' = FileCommand
    /\ Clear
    /\ UNCHANGED <<sudo_password, engine, editing_token, should_quit, run_result, disp>>

\* Esc in the password prompt
PromptEsc ==
    /\ run_result = "running" /\ ~should_quit
    /\ sudo_password_prompt
    /\ sudo_password_prompt' = FALSE
    /\ sudo_password' = <<>>
    /\ sudo_command' = <<>>
    /\ UNCHANGED <<history, engine, inp, app>>

\* a submit that leaves the password in the buffer
PromptSubmitKeep(pw) ==
    [sudo_password |-> pw, sudo_password_prompt |-> FALSE, sudo_command |-> <<>>,
     password |-> pw]

\* Enter in the password prompt with a command waiting: the controller's
\* fields after it, and the password handed to execute_sudo
PromptSubmit(pw) ==
    [sudo_password |-> <<>>, sudo_password_prompt |-> FALSE, sudo_command |-> <<>>,
     password |-> pw]

\* Enter in the password prompt; without a command waiting nothing happens
PromptEnter ==
    LET u == PromptSubmit(sudo_password) IN
    /\ run_result = "running" /\ ~should_quit
    /\ sudo_password_prompt
    /\ sudo_command # <<>>
    /\ sudo_password' = u.sudo_password
    /\ sudo_password_prompt' = u.sudo_password_prompt
    /\ sudo_command' = u.sudo_command
    /\ ExecuteSudoCall
    /\ ui_is_running' = TRUE
    /\ UNCHANGED <<history, inp, editing_token, should_quit, run_result, ui_output, nav>>

\* a character typed in the password prompt
PromptChar(c) ==
    /\ run_result = "running" /\ ~should_quit
    /\ sudo_password_prompt
    /\ Len(sudo_password) < MaxPw
    /\ sudo_password' = Append(sudo_password, c)
    /\ UNCHANGED <<sudo_password_prompt, sudo_command, history, engine, inp, app>>

\* Backspace in the password prompt: String::pop
PromptBackspace ==
    /\ run_result = "running" /\ ~should_quit
    /\ sudo_password_prompt
    /\ sudo_password # <<>>
    /\ sudo_password' = SubSeq(sudo_password, 1, Len(sudo_password) - 1)
    /\ UNCHANGED <<sudo_password_prompt, sudo_command, history, engine, inp, app>>

\* The controller's key and mouse handlers around the password prompt, the
\* poll of every tick, and the threads of the commands they start.
NextUi ==
    \/ \E cmd \in Commands : KeyEnterRun(cmd)
    \/ \E cmd \in Commands : KeyEnterSudo(cmd)
    \/ MouseFile
    \/ PromptEsc
    \/ PromptEnter
    \/ \E c \in PwChars : PromptChar(c)
    \/ PromptBackspace
    \/ CheckOutput
    \/ \E j \in JobIds : JobStep(j)

SpecUi == Init /\ [][NextUi]_vars

\* KeyCode::Char(c): to the token being edited, else to the line
KeyChar(c) ==
    /\ Reading
    /\ IF editing_token.some THEN
           /\ Len(editing.v) < MaxEdit
           /\ UpdateEditing(Append(editing.v, c))
           /\ UNCHANGED <<editing_token, should_quit, run_result>>
       ELSE
           /\ Len(raw_input) < MaxLen
           /\ SetInput(Append(raw_input, c))
           /\ run_result' = Propagate(ret')
           /\ UNCHANGED <<editing_token, should_quit>>
    /\ UNCHANGED <<engine, ui, disp, nav>>

\* KeyCode::Backspace
KeyBackspace ==
    /\ Reading
    /\ IF editing_token.some THEN
           /\ IF editing.some THEN UpdateEditing(Pop(editing.v)) ELSE UNCHANGED inp
           /\ UNCHANGED <<editing_token, should_quit, run_result>>
       ELSE
           /\ SetInput(Pop(raw_input))
           /\ run_result' = Propagate(ret')
           /\ UNCHANGED <<editing_token, should_quit>>
    /\ UNCHANGED <<engine, ui, disp, nav>>

\* KeyCode::Esc while a token is edited
KeyEsc ==
    /\ Reading /\ editing_token.some
    /\ CancelEdit
    /\ editing_token' = None
    /\ UNCHANGED <<should_quit, run_result, engine, ui, disp, nav>>

\* KeyCode::Enter while a token is edited
KeyEnterEdit ==
    /\ Reading /\ editing_token.some
    /\ Len(rebuild_raw_input(CommitTokens(editing_token.v))) <= MaxRaw
    /\ CommitEdit(editing_token.v)
    /\ run_result' = Propagate(ret')
    /\ editing_token' = IF run_result' = "Err" THEN editing_token ELSE None
    /\ UNCHANGED <<should_quit, engine, ui, disp, nav>>

\* Ctrl+C: the quit request; while a token is edited it is a character key
KeyCtrlC ==
    /\ Reading
    /\ IF editing_token.some THEN
           /\ Len(editing.v) < MaxEdit
           /\ UpdateEditing(Append(editing.v, Letter))
           /\ UNCHANGED should_quit
       ELSE
           /\ should_quit' = TRUE
           /\ UNCHANGED inp
    /\ UNCHANGED <<editing_token, run_result, engine, ui, disp, nav>>

\* a mouse click in the input area, effective_x columns right of its border
MouseInput(effective_x) ==
    /\ run_result = "running" /\ ~should_quit
    /\ \E tabw \in {0, 1} :
        LET hit == get_token_at_position(0, 0, effective_x, tabw) IN
        IF hit.some THEN
            /\ StartEditing(hit.v)
            /\ run_result' = Propagate(ret')
            /\ editing_token' = IF run_result' = "Err" THEN editing_token ELSE hit
        ELSE
            UNCHANGED <<inp, editing_token, run_result>>
    /\ UNCHANGED <<should_quit, engine, ui, disp, nav>>

\* the top of the loop of App::run after the quit request
RunQuit ==
    /\ run_result = "running" /\ should_quit
    /\ run_result' = "Ok"
    /\ UNCHANGED <<engine, ui, inp, editing_token, should_quit, disp, nav>>

NextApp ==
    \/ \E c \in Chars : KeyChar(c)
    \/ KeyBackspace
    \/ KeyEsc
    \/ KeyEnterEdit
    \/ KeyCtrlC
    \/ \E x \in 0..MaxCol : MouseInput(x)
    \/ MouseFile
    \/ PromptEsc
    \/ RunQuit

SpecApp == Init /\ [][NextApp]_vars

\* C25: no failure ends the controller: App::run returns only after the
\* quit request (Ctrl+C), and then with Ok.
C25_LoopEndsOnlyOnQuit ==
    run_result # "running" => (should_quit /\ run_result = "Ok")

\* s holds no double quote and no backslash
NoQuoteNoBackslash(s) == \A k \in 1..Len(s) : s[k] \notin {Quote, Backslash}

\* the positions of s where a maximal run of characters other than space and
\* tab starts, and the position where the run that starts at k ends
RunStarts(s) ==
    {k \in 1..Len(s) : s[k] \notin {Space, Tab} /\ (k = 1 \/ s[k - 1] \in {Space, Tab})}
RunEnd(s, k) ==
    CHOOSE e \in k..Len(s) :
        /\ \A m \in k..e : s[m] \notin {Space, Tab}
        /\ (e = Len(s) \/ s[e + 1] \in {Space, Tab})

\* the maximal runs of s, from left to right
Runs(s) ==
    [n \in 1..Cardinality(RunStarts(s)) |->
        LET k == CHOOSE j \in RunStarts(s) :
                    Cardinality({h \in RunStarts(s) : h < j}) = n - 1
        IN SubSeq(s, k, RunEnd(s, k))]

\* C26: for a line without double quote and backslash set_input returns Ok
\* and the token texts are the maximal runs of characters other than space
\* and tab, from left to right; no token is empty.
C26_WhitespaceRuns ==
    [][(SetInputStep /\ NoQuoteNoBackslash(raw_input'))
            => /\ ret' = Ok
               /\ TokenTexts(tokens') = Runs(raw_input')
               /\ \A k \in 1..Len(tokens') : tokens'[k].text # <<>>]_vars

\* C26 witness: a line of two runs separated by a tab and a space was set.
C26_Witness ==
    /\ ret = Ok /\ ~editing.some
    /\ raw_input = <<Letter, Tab, Space, Letter>>
    /\ TokenTexts(tokens) = <<<<Letter>>, <<Letter>>>>

\* s is one double-quoted segment with a space inside: a quote, then letters,
\* spaces and tabs of which one is a space, then a quote
QuotedSegment(s) ==
    /\ Len(s) >= 3 /\ s[1] = Quote /\ s[Len(s)] = Quote
    /\ \A k \in 2..(Len(s) - 1) : s[k] \in {Letter, Space, Tab}
    /\ \E k \in 2..(Len(s) - 1) : s[k] = Space

\* C27: a double-quoted segment with spaces inside is one token whose text
\* keeps both surrounding double quotes.
C27_QuotesRetained ==
    [][(SetInputStep /\ QuotedSegment(raw_input'))
            => TokenTexts(tokens') = <<raw_input'>>]_vars

\* character k of s lies inside quotes: an odd number of unescaped double
\* quotes precedes it
InQuotesAt(s, k) ==
    Cardinality({j \in 1..(k - 1) : s[j] = Quote /\ ~Escaped(s, j)}) % 2 = 1

\* character k of s separates tokens: an unescaped space or tab outside quotes
Separates(s, k) == s[k] \in {Space, Tab} /\ ~Escaped(s, k) /\ ~InQuotesAt(s, k)

\* character k of s belongs to a token text: an escaped character, or a
\* character that is no backslash, no double quote and no separator
Appended(s, k) ==
    \/ Escaped(s, k)
    \/ s[k] \notin {Backslash, Quote} /\ ~Separates(s, k)

\* the appended characters of s from position k to position e
RECURSIVE AppendedIn(_, _, _)
AppendedIn(s, k, e) ==
    IF k > e THEN <<>>
    ELSE (IF Appended(s, k) THEN <<s[k]>> ELSE <<>>) \o AppendedIn(s, k + 1, e)

\* the texts between the separators of s from position k on, empty ones left out
RECURSIVE SegmentTexts(_, _)
SegmentTexts(s, k) ==
    IF k > Len(s) THEN <<>>
    ELSE IF Separates(s, k) THEN SegmentTexts(s, k + 1)
    ELSE LET e == CHOOSE m \in k..Len(s) :
                      /\ \A j \in k..m : ~Separates(s, j)
                      /\ (m = Len(s) \/ Separates(s, m + 1))
             text == AppendedIn(s, k, e)
         IN (IF text # <<>> THEN <<text>> ELSE <<>>) \o SegmentTexts(s, e + 1)

NoBackslash(s) == \A k \in 1..Len(s) : s[k] # Backslash

\* C29: for a line with balanced quotes and no backslash, tokenizing the
\* line rebuilt from the unedited tokens succeeds and gives the same token
\* texts again.
C29_RebuildIdempotent ==
    [][(SetInputStep /\ ret' = Ok /\ NoBackslash(raw_input'))
            => /\ Tokenize(rebuild_raw_input(tokens')).ret = Ok
               /\ TokenTexts(Tokenize(rebuild_raw_input(tokens')).tokens)
                      = TokenTexts(tokens')]_vars

\* C29 witness: a line was set whose rebuild is a different line: the quotes
\* move around the whole token, which starts with a tab.
C29_Witness ==
    /\ ret = Ok /\ ~editing.some
    /\ raw_input = <<Quote, Tab, Quote, Letter>>
    /\ rebuild_raw_input(tokens) = <<Quote, Tab, Letter, Quote>>

\* a step that is a commit_edit(i) which stores the edited text
CommitStep(i) == InputCommitEdit /\ i < Len(tokens) /\ editing.some /\ CommitEdit(i)

\* text holds no double quote and no run of two or more spaces and tabs
NoQuoteNoRun(text) ==
    /\ \A k \in 1..Len(text) : text[k] # Quote
    /\ \A k \in 1..(Len(text) - 1) : ~(is_whitespace(text[k]) /\ is_whitespace(text[k + 1]))

\* C30 as stated: after a commit_edit that stores a text without double
\* quote and without a run of several whitespace characters, the
\* tokenization of the rebuilt raw_input gives the token texts held after
\* the commit.
C30_CommitRoundTrip ==
    [][\A i \in 0..MaxIdx :
        (CommitStep(i) /\ NoQuoteNoRun(editing.v))
            => /\ Tokenize(raw_input').ret = Ok
               /\ TokenTexts(Tokenize(raw_input').tokens) = TokenTexts(tokens')]_vars

\* C30: after a commit_edit that stores a non-empty text without double
\* quote, backslash and run of several whitespace characters, while every
\* other token text is non-empty and without double quote and backslash, the
\* tokenization of the rebuilt raw_input gives the token texts held after
\* the commit.
C30_CommitRoundTripPlain ==
    [][\A i \in 0..MaxIdx :
        (/\ CommitStep(i)
         /\ NoQuoteNoRun(editing.v) /\ Plain(editing.v)
         /\ \A k \in 1..Len(tokens) : k # i + 1 => Plain(tokens[k].text))
            => /\ Tokenize(raw_input').ret = Ok
               /\ TokenTexts(Tokenize(raw_input').tokens) = TokenTexts(tokens')]_vars

\* C30 witness: a commit has put a tab in place of the first of two tokens;
\* the rebuilt line quotes it and is longer than the line that was set.
C30_Witness ==
    /\ ret = Ok /\ ~editing.some
    /\ TokenTexts(tokens) = <<<<Tab>>, <<Letter>>>>
    /\ raw_input = <<Quote, Tab, Quote, Space, Letter>>
    /\ tokens[2].range[2] < Len(raw_input)

\* the locals of tokenize after the first n characters of s
ScanOf(s, n) == Scan(SubSeq(s, 1, n), 0, ScanStart)

\* C31: the scan over an escaping backslash (one that is not itself escaped)
\* appends nothing and completes no token; the character after it is
\* appended as it is, whatever it is, completes no token, and leaves the scan
\* in the quoted or unquoted state it had before the backslash.
C31_EscapeLiteral ==
    [][SetInputStep =>
        \A k \in 1..Len(raw_input') :
            (raw_input'[k] = Backslash /\ ~Escaped(raw_input', k)) =>
                /\ ScanOf(raw_input', k).current_token = ScanOf(raw_input', k - 1).current_token
                /\ ScanOf(raw_input', k).tokens = ScanOf(raw_input', k - 1).tokens
                /\ ScanOf(raw_input', k).in_quotes = ScanOf(raw_input', k - 1).in_quotes
                /\ k < Len(raw_input') =>
                    /\ ScanOf(raw_input', k + 1).current_token
                         = Append(ScanOf(raw_input', k - 1).current_token, raw_input'[k + 1])
                    /\ ScanOf(raw_input', k + 1).tokens = ScanOf(raw_input', k - 1).tokens
                    /\ ScanOf(raw_input', k + 1).in_quotes = ScanOf(raw_input', k - 1).in_quotes
                    /\ ~ScanOf(raw_input', k + 1).escaped]_vars

\* C31 witness: a line with an escaped space between two letters was set
\* and gave one token with the space and without the backslash.
C31_Witness ==
    /\ ret = Ok /\ ~editing.some
    /\ raw_input = <<Letter, Backslash, Space, Letter>>
    /\ TokenTexts(tokens) = <<<<Letter, Space, Letter>>>>

\* the slice s[from..to] of a string, by 0-based half-open byte range
Slice(s, from, to) == SubSeq(s, from + 1, to)

\* C32: after a successful set_input every token has a range (start, end)
\* with start < end <= raw_input.len(), the end of a token is not after the
\* start of the next one, and where the slice of raw_input at the range holds
\* no double quote and no backslash the slice is the token text.
C32_Ranges ==
    [][(SetInputStep /\ ret' = Ok) =>
        /\ \A k \in 1..Len(tokens') :
            /\ tokens'[k].range[1] < tokens'[k].range[2]
            /\ tokens'[k].range[2] <= Len(raw_input')
            /\ NoQuoteNoBackslash(Slice(raw_input', tokens'[k].range[1], tokens'[k].range[2]))
                   => Slice(raw_input', tokens'[k].range[1], tokens'[k].range[2])
                          = tokens'[k].text
        /\ \A k \in 1..(Len(tokens') - 1) :
            /\ tokens'[k].range[2] <= tokens'[k + 1].range[1]
            /\ tokens'[k].range[1] < tokens'[k + 1].range[1]]_vars

\* C32 witness: a line with leading whitespace and two tokens was set.
C32_Witness ==
    /\ ret = Ok /\ ~editing.some
    /\ raw_input = <<Space, Letter, Tab, Letter>>
    /\ Len(tokens) = 2
    /\ tokens[1].range = <<1, 2>> /\ tokens[2].range = <<3, 4>>

\* text holds a space or a tab
HasWhitespace(text) == \E k \in 1..Len(text) : text[k] \in {Space, Tab}

\* the number of characters token k of ts takes in the joined line, and the
\* 0-based position where it starts
PieceLen(ts, k) == Len(ts[k].text) + (IF HasWhitespace(ts[k].text) THEN 2 ELSE 0)
RECURSIVE PieceStart(_, _)
PieceStart(ts, k) == IF k = 1 THEN 0 ELSE PieceStart(ts, k - 1) + PieceLen(ts, k - 1) + 1

\* s is the texts of ts joined by single spaces, those with whitespace in quotes
JoinedLine(s, ts) ==
    /\ Len(s) = IF ts = <<>> THEN 0 ELSE PieceStart(ts, Len(ts)) + PieceLen(ts, Len(ts))
    /\ \A k \in 1..Len(ts) :
        /\ k > 1 => s[PieceStart(ts, k)] = Space
        /\ IF HasWhitespace(ts[k].text)
           THEN /\ s[PieceStart(ts, k) + 1] = Quote
                /\ Slice(s, PieceStart(ts, k) + 1, PieceStart(ts, k) + 1 + Len(ts[k].text))
                       = ts[k].text
                /\ s[PieceStart(ts, k) + PieceLen(ts, k)] = Quote
           ELSE Slice(s, PieceStart(ts, k), PieceStart(ts, k) + PieceLen(ts, k)) = ts[k].text

\* C33: a commit_edit(i) that finds a text t in the scratch buffer and a
\* valid i returns Ok, makes t the text of token i, keeps the text of every
\* other token and the number of tokens, empties the scratch buffer, and
\* makes raw_input the token texts joined by single spaces, exactly the texts
\* with whitespace wrapped in double quotes.
C33_CommitEffect ==
    [][\A i \in 0..MaxIdx : CommitStep(i) =>
        /\ ret' = Ok
        /\ Len(tokens') = Len(tokens)
        /\ tokens'[i + 1].text = editing.v
        /\ \A k \in 1..Len(tokens) : k # i + 1 => tokens'[k].text = tokens[k].text
        /\ ~editing'.some
        /\ JoinedLine(raw_input', tokens')]_vars

\* C33 witness: a commit has made a space the text of the second of two
\* tokens; the line holds it in quotes after the first token and one space.
C33_Witness ==
    /\ ret = Ok /\ ~editing.some
    /\ TokenTexts(tokens) = <<<<Letter>>, <<Space>>>>
    /\ raw_input = <<Letter, Space, Quote, Space, Quote>>

\* a step of an edit that is not committed: start_editing, update_editing
\* or cancel_edit
EditStep == InputStartEditing \/ InputUpdatePush \/ InputUpdatePop \/ InputCancelEdit

\* C34: start_editing, update_editing and cancel_edit leave raw_input and the
\* tokens (texts and ranges) as they are, and cancel_edit leaves the scratch
\* buffer empty: an edit that is started, changed and cancelled changes
\* nothing.
C34_AbortedEdit ==
    [][(EditStep => UNCHANGED <<raw_input, tokens>>)
        /\ (InputCancelEdit => editing' = NoText)]_vars

\* C34 witness: an edit of a line of two tokens was cancelled: the scratch
\* buffer is empty and the tokens are those of the line.
C34_Witness ==
    /\ ret = Unit /\ ~editing.some
    /\ raw_input = <<Letter, Space, Letter>>
    /\ TokenTexts(tokens) = <<<<Letter>>, <<Letter>>>>
    /\ tokens[1].range = <<0, 1>> /\ tokens[2].range = <<2, 3>>

\* str::split_whitespace from position i on: cur is the piece being read,
\* acc the non-empty pieces found
RECURSIVE SplitFrom(_, _, _, _)
SplitFrom(s, i, cur, acc) ==
    IF i > Len(s) THEN
        IF cur # <<>> THEN Append(acc, cur) ELSE acc
    ELSE IF is_whitespace(s[i]) THEN
        SplitFrom(s, i + 1, <<>>, IF cur # <<>> THEN Append(acc, cur) ELSE acc)
    ELSE
        SplitFrom(s, i + 1, Append(cur, s[i]), acc)

\* the split of execute: the program followed by the arguments
split_whitespace(command) == SplitFrom(command, 1, <<>>, <<>>)

\* C35: for a line without double quote and backslash (space and tab its
\* only whitespace) the program and arguments that execute splits the line
\* into are the token texts of the tokenizer for that line.
C35_SplitsAgree ==
    [][(SetInputStep /\ NoQuoteNoBackslash(raw_input'))
            => split_whitespace(raw_input') = TokenTexts(tokens')]_vars

\* C35 witness: a line with a leading tab and two words was set, and the
\* split of execute gives the two words.
C35_Witness ==
    /\ ret = Ok /\ ~editing.some
    /\ raw_input = <<Tab, Letter, Space, Letter>>
    /\ split_whitespace(raw_input) = <<<<Letter>>, <<Letter>>>>
    /\ Len(tokens) = 2

\* ------------------------------------- commands and the display (main.rs)
\* Executor::all_output
all_output(res) == res.stdout \o res.stderr

\* the line "cd <target>"
CdCommand(target) == <<"cd", target>>

\* Enter on a "cd ..." line: history, execute (the cd is done inside the
\* call), is_running, clear
KeyEnterCd(target, ls) ==
    /\ Reading /\ ~editing_token.some
    /\ Len(history) < MaxHist
    /\ HistoryAddCall(CdCommand(target))
    /\ ExecuteCdCall(target, ls)
    /\ ui_is_running' = TRUE
    /\ Clear
    /\ UNCHANGED <<sudo_password_prompt, sudo_password, sudo_command,
                   editing_token, should_quit, run_result, ui_output>>

\* Enter on a "cd ..." line when execute returns the error of
\* handle_cd_command: the `?` ends the handler and App::run
KeyEnterCdErr ==
    /\ Reading /\ ~editing_token.some
    /\ Len(history) < MaxHist
    /\ \E target \in Dirs :
        /\ HistoryAddCall(CdCommand(target))
        /\ ExecuteCdNoHomeCall \/ ExecuteCdNoCwdCall(target)
    /\ run_result' = "Err"
    /\ UNCHANGED <<sudo_password_prompt, sudo_password, sudo_command,
                   inp, editing_token, should_quit, disp>>

\* a click on a directory of the listing
MouseDir(target, ls) ==
    /\ run_result = "running" /\ ~should_quit
    /\ Len(history) < MaxHist
    /\ HistoryAddCall(CdCommand(target))
    /\ ExecuteCdCall(target, ls)
    /\ ui_is_running' = TRUE
    /\ Clear
    /\ UNCHANGED <<sudo_password_prompt, sudo_password, sudo_command,
                   editing_token, should_quit, run_result, ui_output>>

\* a click on a directory when execute returns the error of handle_cd_command
MouseDirErr(target) ==
    /\ run_result = "running" /\ ~should_quit
    /\ Len(history) < MaxHist
    /\ HistoryAddCall(CdCommand(target))
    /\ ExecuteCdNoCwdCall(target)
    /\ run_result' = "Err"
    /\ UNCHANGED <<sudo_password_prompt, sudo_password, sudo_command,
                   inp, editing_token, should_quit, disp>>

\* the poll of one turn of the loop of App::run: when check_output returns
\* true the output and the running flag are copied from the engine
LoopCheckOutput ==
    LET c == CheckOutputPost(output_rx, terminate_tx, result, Pending) IN
    /\ run_result = "running" /\ ~should_quit
    /\ CheckOutputCall
    /\ IF c.ret
       THEN /\ ui_output' = all_output(c.result)
            /\ ui_is_running' = (c.output_rx # 0)
       ELSE UNCHANGED disp
    /\ UNCHANGED <<ui, inp, editing_token, should_quit, run_result, nav>>

\* Commands and cd's are entered, a sudo command is confirmed with the password
\* typed so far, the loop polls, the threads run.
NextRun ==
    \/ \E target \in CdTargets, ls \in CdListings : KeyEnterCd(target, ls)
    \/ KeyEnterCdErr
    \/ \E target \in CdTargets, ls \in CdListings : MouseDir(target, ls)
    \/ \E target \in Dirs : MouseDirErr(target)
    \/ KeyEnterRun(<<"ls">>)
    \/ KeyEnterSudo(<<"sudo", "ls">>)
    \/ PromptEnter
    \/ LoopCheckOutput
    \/ \E j \in JobIds : JobStep(j)

\* The loop polls on every turn and the threads are scheduled as in SpecLive.
FairnessRun ==
    /\ WF_vars(LoopCheckOutput)
    /\ WF_vars(ProcExit(MaxJobs))
    /\ \A j \in JobIds :
          WF_vars(WorkerStep(j)) /\ WF_vars(ReadOutEof(j)) /\ WF_vars(ReadErrEof(j))

SpecRun == Init /\ [][NextRun]_vars /\ FairnessRun

\* a cd was submitted and the controller has not yet seen it completed: the
\* flag is set and the engine holds no receiver
CdSubmitted == run_result = "running" /\ ui_is_running /\ output_rx = 0

\* C36: after a cd is submitted the controller's is_running flag returns to
\* false and the display holds the output of the cd, by the polls of the
\* loop alone.
C36_CdReported ==
    CdSubmitted ~> (~ui_is_running /\ ui_output = all_output(result))

\* C37: whenever a token index is marked as being edited, a text is being
\* edited and the index is within the token list.
C37_EditingTokenValid ==
    editing_token.some => (editing.some /\ editing_token.v < Len(tokens))

\* C38 as stated: execute of an empty or whitespace-only line returns an
\* error and starts no worker; afterwards is_running() is false, the result
\* is empty without exit code, and a signal is in the terminate channel of
\* the command that was running before the call.
C38_EmptySignalsRunning ==
    [][ExecuteEmpty =>
        /\ ~ExecuteOk("empty")
        /\ nJobs' = nJobs /\ \A j \in JobIds : jobs'[j].wpc = jobs[j].wpc
        /\ output_rx' = 0
        /\ result' = EmptyResult
        /\ output_rx # 0 => term'[output_rx] > 0]_vars

\* C38: execute of an empty or whitespace-only line returns an error and
\* starts no worker; afterwards is_running() is false and the result is
\* empty without exit code; a command that was running before the call got
\* one signal in its terminate channel if its worker still holds the
\* receiver, and otherwise nothing is placed and none of its processes is
\* alive.
C38_EmptyLine ==
    [][ExecuteEmpty =>
        /\ ~ExecuteOk("empty")
        /\ nJobs' = nJobs /\ \A j \in JobIds : jobs'[j].wpc = jobs[j].wpc
        /\ output_rx' = 0 /\ terminate_tx' = 0
        /\ result' = EmptyResult /\ ~result'.exit_code.some
        /\ (output_rx # 0 /\ TermRxAlive(output_rx)) =>
              term' = [term EXCEPT ![output_rx] = @ + 1]
        /\ (output_rx # 0 /\ ~TermRxAlive(output_rx)) =>
              term' = term /\ jobs[output_rx].proc # "alive"
        /\ output_rx = 0 => term' = term]_vars

\* C38 witness: an empty line was executed while a command was running with
\* its process alive: nothing runs, the result is empty, the signal is in
\* flight.
C38_Witness ==
    /\ output_rx = 0 /\ terminate_tx = 0 /\ cancelled = 0
    /\ result = EmptyResult /\ cwd = "home"
    /\ \E j \in JobIds : term[j] = 1 /\ jobs[j].proc = "alive" /\ jobs[j].wpc = "loop"

\* ------------------------------------------------ the history (history.rs)
MaxEntries == 3     \* entries of the history, and largest bound set on it

\* Option<&String>::None
NoCommand == [some |-> FALSE, v |-> <<>>]

\* VecDeque::get
HistoryGet(h, index) == IF index < Len(h) THEN Some(h[index + 1]) ELSE NoCommand

\* History::previous: the cursor after the call and what it returns
HistoryPrevious(h, pos) ==
    IF h = <<>> THEN [current_position |-> pos, ret |-> NoCommand]
    ELSE LET new_pos == IF ~pos.some THEN 0
                        ELSE IF pos.v + 1 < Len(h) THEN pos.v + 1
                        ELSE pos.v
         IN [current_position |-> Some(new_pos), ret |-> HistoryGet(h, new_pos)]

\* History::next: the cursor after the call and what it returns
HistoryNext(h, pos) ==
    IF pos.some /\ pos.v = 0 THEN [current_position |-> None, ret |-> NoCommand]
    ELSE IF pos.some THEN
        [current_position |-> Some(pos.v - 1), ret |-> HistoryGet(h, pos.v - 1)]
    ELSE [current_position |-> None, ret |-> NoCommand]

\* what the history does not touch
restHist == <<engine, sudo_password_prompt, sudo_password, sudo_command,
              inp, editing_token, should_quit, run_result, disp>>

\* History::add
HistAdd(cmd) ==
    /\ Len(history) < MaxEntries
    /\ HistoryAddCall(cmd)
    /\ UNCHANGED restHist

\* History::previous
HistPrevious ==
    /\ current_position' = HistoryPrevious(history, current_position).current_position
    /\ UNCHANGED <<history, max_history, restHist>>

\* History::next
HistNext ==
    /\ current_position' = HistoryNext(history, current_position).current_position
    /\ UNCHANGED <<history, max_history, restHist>>

\* History::reset_position
HistResetPosition ==
    /\ current_position' = None
    /\ UNCHANGED <<history, max_history, restHist>>

\* History::set_max_history
HistSetMax(max) ==
    /\ max_history' = max
    /\ history' = Trim(history, max)
    /\ UNCHANGED <<current_position, restHist>>

NextHist ==
    \/ \E cmd \in Commands \cup {FileCommand, <<>>} : HistAdd(cmd)
    \/ HistPrevious
    \/ HistNext
    \/ HistResetPosition
    \/ \E max \in 0..MaxEntries : HistSetMax(max)

SpecHist == Init /\ [][NextHist]_vars

\* C39: the cursor is None or an index into the commands.
C39_CursorValid == current_position.some => current_position.v < Len(history)

\* the smaller of two numbers
Least(a, b) == IF a < b THEN a ELSE b

\* the first n entries of the list h
Newest(h, n) == SubSeq(h, 1, n)

\* C40: after every add and set_max_history the list holds no more than
\* max_history entries; what is removed is removed from the back (the oldest),
\* and what remains is the newest entries in their order, newest first.
C40_Bounded ==
    [][/\ \A cmd \in Commands \cup {FileCommand, <<>>} : HistAdd(cmd) =>
            /\ Len(history') <= max_history'
            /\ \/ HistorySkips(history, cmd) /\ history' = history
               \/ /\ ~HistorySkips(history, cmd)
                  /\ Len(history') = Least(Len(history) + 1, max_history)
                  /\ history' = Newest(<<cmd>> \o history, Len(history'))
       /\ \A max \in 0..MaxEntries : HistSetMax(max) =>
            /\ max_history' = max
            /\ Len(history') <= max_history'
            /\ Len(history') = Least(Len(history), max)
            /\ history' = Newest(history, Len(history'))]_vars

\* C40: a bound of one has cut a list that was browsed at its second entry
C40_Witness ==
    /\ max_history = 1
    /\ history = <<FileCommand>>
    /\ current_position = Some(1)

====
